---------------------------- MODULE Spec2Model ----------------------------
(***************************************************************************)
(* Model of the flight-monitor scripts: the date enumerator                *)
(* (get_weekend_dates), the date sampler (select_smart_dates /             *)
(* select_distributed_dates), the quote extractor                          *)
(* (extract_flight_info / extract_best_flight), the scan loop              *)
(* (search_flight / run_complete_scan and the finders' loops), the result  *)
(* aggregator (analyze_results / generate_email_report), the scripts'      *)
(* main functions, the configuration validator (validate_config), the      *)
(* market monitor's get_strategic_dates and the quota scheduler            *)
(* (calculate_quota_schedule).                                             *)
(*                                                                         *)
(* A datetime is modelled by its proleptic Gregorian ordinal (day 1 is     *)
(* 0001-01-01), a '%Y-%m-%d' string by the triple <<year, month, day>> of  *)
(* its fields, a 'YYYY-MM' prefix by <<year, month>>.                      *)
(***************************************************************************)
EXTENDS Integers, Sequences, FiniteSets

VARIABLES
    \* ---- enumerator (one object and one call of get_weekend_dates)
    variant,            \* which script's get_weekend_dates is called
    travel_year,        \* self.travel_year / the year argument
    start_month,        \* self.start_month / the start_month argument
    end_month,          \* self.end_month / the end_month argument
    departure_days,     \* self.departure_days / the literal weekday list
    trip_duration,      \* self.trip_duration / the literal timedelta days
    weekend_trips,      \* what the call returned: [status, trips]
    \* ---- sampler (one call of each variant on the same list)
    all_dates,          \* the list handed to the sampler
    max_dates,          \* select_distributed_dates' max_dates
    strategy,           \* select_smart_dates' strategy
    smart_selected,     \* what select_smart_dates returned: [status, dates]
    distributed_selected, \* what select_distributed_dates returned
    \* ---- extractor (one API response and one call of the extractor)
    search_data,        \* the parsed API response
    flight_info,        \* what the extractor returned: [status, record]
    extractor,          \* which script's extractor was called
    \* ---- scan loop (one run of a script's scan over its date pairs)
    scanner,            \* which script's scan loop runs
    scan_dates,         \* the date pairs the loop goes through
    position,           \* the number of requests completed and processed
    pc,                 \* where the run is: loop, waiting, received, done
    api_calls_used,     \* self.api_calls_used
    requests_sent,      \* the requests issued so far, as positions of the loop
    response,           \* how the last requests.get ended: raised, or a response
    search_result,      \* what search_flight returned: [status, data]
    printed,            \* the line printed for each processed request
    results,            \* the records collected / handed to analyze_results
    network,            \* the outcomes the run's requests can have, in turn
    \* ---- aggregator (one call of analyze_results and of the renderer)
    analysis,           \* what analyze_results returned: [status, report]
    email_report,       \* what generate_email_report read off the analysis
    \* ---- main (one run of a script from its start to its exit)
    main_script,        \* which script's main runs
    environ,            \* the credentials os.getenv finds set and non-empty
    answer,             \* what the user types at the confirmation prompt
    main_pc,            \* where main is: start, prompt, scan, scanning, exited
    exit_status,        \* running, success (return) or failure (sys.exit(1))
    effects,            \* what the run did outside: messages, files, emails
    \* ---- tools (validate_config, market_monitor, quota_scheduler)
    validation,         \* what validate_config returned and estimated
    now,                \* datetime.now(): [date, hour, later]
    market_strategy,    \* get_strategic_dates' strategy
    market_start,       \* get_strategic_dates' start_date
    market_end,         \* get_strategic_dates' end_date
    strategic_dates,    \* what get_strategic_dates returned: [status, dates]
    schedule_dates      \* what calculate_quota_schedule returned

enumVars == <<variant, travel_year, start_month, end_month, departure_days,
              trip_duration, weekend_trips>>
samplerVars == <<all_dates, max_dates, strategy, smart_selected,
                 distributed_selected>>
extractVars == <<search_data, flight_info, extractor>>
scanVars == <<scanner, scan_dates, position, pc, api_calls_used,
              requests_sent, response, search_result, printed, results,
              network>>
aggVars == <<analysis, email_report>>
mainVars == <<main_script, environ, answer, main_pc, exit_status, effects>>
toolVars == <<validation, now, market_strategy, market_start, market_end,
              strategic_dates, schedule_dates>>
vars == <<enumVars, samplerVars, extractVars, scanVars, aggVars, mainVars,
          toolVars>>

-----------------------------------------------------------------------------
(* Bounds of the model *)

\* travel years FirstYear .. FirstYear + NumYears - 1
NumYears == 2
\* a trip long enough to carry a late-November departure into the next year
LongTrip == 40

\* the sampler is handed lists over the months FirstMonth ..
\* FirstMonth + NumMonths - 1
NumMonths == 4
\* select_distributed_dates is called with max_dates in 0 .. MaxDates
MaxDates == 14

\* best_flights holds at most MaxBest itineraries
MaxBest == 2
\* other_flights holds at most MaxOther itineraries
MaxOther == 1

\* a sparse itinerary holds at most MaxSegments flight segments
MaxSegments == 2
\* and at most MaxLayovers layovers
MaxLayovers == 2

\* analyze_results is handed at most MaxRecords records
MaxRecords == 6

(* Program constants *)

\* the first month the finder scripts enumerate: get_weekend_dates(4, 6, 2026)
FirstMonth == 4
\* the last month the finder scripts enumerate
LastFinderMonth == 6
\* select_smart_dates: 'conservative'
ConservativeDates == 3
\* select_smart_dates: 'weekly', and any other strategy
WeeklyDates == 13
\* select_smart_dates: 'comprehensive'
ComprehensiveDates == 24

\* default TRAVEL_YEAR, and the year the finder scripts pass
FirstYear == 2026
\* default TRIP_DURATION_DAYS, and the Paris finder's timedelta(days=4)
ParisTripDays == 4
\* the multi-destination finder's timedelta(days=5)
WeekendTripDays == 5
\* the longest TRIP_DURATION_DAYS validate_config accepts
MaxValidTrip == 30
\* analysis['best_deals'] = results[:5]
TopDeals == 5
\* find_best_weekend_flights(max_options_per_destination=3)
WeekendOptions == 3

-----------------------------------------------------------------------------
(* datetime: the calendar arithmetic behind datetime(), timedelta,         *)
(* weekday(), strftime('%Y-%m-%d') and strptime(..., '%Y-%m-%d')           *)

DAYS_IN_MONTH == <<31, 28, 31, 30, 31, 30, 31, 31, 30, 31, 30, 31>>

DAYS_BEFORE_MONTH == <<0, 31, 59, 90, 120, 151, 181, 212, 243, 273, 304, 334>>

is_leap(y) == y % 4 = 0 /\ (y % 100 # 0 \/ y % 400 = 0)

days_in_month(y, m) == IF m = 2 /\ is_leap(y) THEN 29 ELSE DAYS_IN_MONTH[m]

days_before_year(y) ==
    LET p == y - 1 IN p * 365 + (p \div 4) - (p \div 100) + (p \div 400)

days_before_month(y, m) ==
    DAYS_BEFORE_MONTH[m] + (IF m > 2 /\ is_leap(y) THEN 1 ELSE 0)

\* datetime(y, m, d) raises ValueError unless the fields name a real day
datetime_valid(y, m, d) ==
    /\ y \in 1..9999
    /\ m \in 1..12
    /\ d \in 1..days_in_month(y, m)

\* datetime(y, m, d), as an ordinal
ymd2ord(y, m, d) == days_before_year(y) + days_before_month(y, m) + d

\* the <<year, month, day>> of an ordinal
ord2ymd(ordinal) ==
    LET n0   == ordinal - 1
        n400 == n0 \div 146097
        r400 == n0 % 146097
        n100 == r400 \div 36524
        r100 == r400 % 36524
        n4   == r100 \div 1461
        r4   == r100 % 1461
        n1   == r4 \div 365
        n    == r4 % 365
        year == n400 * 400 + 1 + n100 * 100 + n4 * 4 + n1
    IN  IF n1 = 4 \/ n100 = 4
        THEN <<year - 1, 12, 31>>
        ELSE LET leapyear == n1 = 3 /\ (n4 # 24 \/ n100 = 3)
                 leapday(m) == IF leapyear /\ m > 2 THEN 1 ELSE 0
                 guess == (n + 50) \div 32
                 month == IF DAYS_BEFORE_MONTH[guess] + leapday(guess) > n
                          THEN guess - 1
                          ELSE guess
                 preceding == DAYS_BEFORE_MONTH[month] + leapday(month)
             IN  <<year, month, n - preceding + 1>>

\* datetime.weekday(): 0 = Monday .. 6 = Sunday
weekday(dt) == (dt + 6) % 7

\* datetime.strftime('%Y-%m-%d'): the fields of the formatted string
strftime(dt) == ord2ymd(dt)

\* datetime.strptime(s, '%Y-%m-%d'): the datetime the fields name
strptime(s) == ymd2ord(s[1], s[2], s[3])

\* datetime.month
month_of(dt) == ord2ymd(dt)[2]

\* datetime.year
year_of(dt) == ord2ymd(dt)[1]

-----------------------------------------------------------------------------
(* DateRangeEnumerator *)

Pending == [status |-> "pending", trips |-> <<>>]

\* KeepsDeparture with the month test applied to the departure instead of the
\* return date.
KeepsDeparture_DepartureMonth(current_date, days, trip, last_month) ==
    /\ weekday(current_date) \in days
    /\ month_of(current_date) <= last_month

\* Whether the loop body appends the pair departing on current_date.
KeepsDeparture(current_date, days, trip, last_month) ==
    /\ weekday(current_date) \in days
    /\ LET return_date == strftime(current_date + trip)
           return_datetime == strptime(return_date)
       IN  month_of(return_datetime) <= last_month

\* The pair the loop body appends: (departure, return_date), both formatted.
TripOf(current_date, trip) ==
    <<strftime(current_date), strftime(current_date + trip)>>

\* The while loop of get_weekend_dates: what the iterations for the days
\* current_date .. end_date append, in order.  An iteration reads nothing an
\* earlier one wrote, so the day range is walked by halves (the recursion
\* depth stays logarithmic) with the appended pairs concatenated in day order.
RECURSIVE WalkDates(_, _, _, _, _)
WalkDates(current_date, end_date, days, trip, last_month) ==
    IF ~(current_date <= end_date)
    THEN <<>>
    ELSE IF current_date = end_date
    THEN IF KeepsDeparture(current_date, days, trip, last_month)
         THEN <<TripOf(current_date, trip)>>
         ELSE <<>>
    ELSE LET mid == (current_date + end_date) \div 2
         IN  WalkDates(current_date, mid, days, trip, last_month)
             \o WalkDates(mid + 1, end_date, days, trip, last_month)

\* The body shared by every get_weekend_dates of the repository; the variants
\* differ in the weekday list and the trip length only.
get_weekend_dates(year, first_month, last_month, days, trip) ==
    IF ~datetime_valid(year, first_month, 1)
    THEN [status |-> "ValueError", trips |-> <<>>]
    ELSE IF ~datetime_valid(year, last_month + 1, 1)
    THEN [status |-> "ValueError", trips |-> <<>>]
    ELSE LET current_date == ymd2ord(year, first_month, 1)
             end_date == ymd2ord(year, last_month + 1, 1) - 1
         IN  [status |-> "ok",
              trips |-> WalkDates(current_date, end_date, days, trip,
                                  last_month)]

\* ConfigurableFlightMonitor.get_weekend_dates(self)
MonitorGetWeekendDates ==
    get_weekend_dates(travel_year, start_month, end_month, departure_days,
                      trip_duration)

\* ParisWeekendFinder.get_weekend_dates(start_month, end_month, year)
ParisGetWeekendDates(first_month, last_month, year) ==
    get_weekend_dates(year, first_month, last_month, {2, 3}, ParisTripDays)

\* WeekendFlightFinder.get_weekend_dates(start_month, end_month, year)
WeekendGetWeekendDates(first_month, last_month, year) ==
    get_weekend_dates(year, first_month, last_month, {2, 3, 4, 5},
                      WeekendTripDays)

\* traditional_weekend_analysis.get_traditional_weekend_dates
get_traditional_weekend_dates(first_month, last_month, year) ==
    get_weekend_dates(year, first_month, last_month, {2, 3}, ParisTripDays)

Years == FirstYear .. (FirstYear + NumYears - 1)

Months == 1..12

\* DEPARTURE_DAYS values: the default, the extended weekend, both ends of the
\* week, every day
DaySets == {{2, 3}, {2, 3, 4, 5}, {0, 6}, 0..6}

\* TRIP_DURATION_DAYS values
TripDurations == {1, ParisTripDays, WeekendTripDays, MaxValidTrip, LongTrip}

Variants == {"monitor", "paris", "weekend", "traditional"}

\* no scan is running
ScanIdle ==
    /\ scanner = "none"
    /\ scan_dates = <<>>
    /\ position = 0
    /\ pc = "idle"
    /\ api_calls_used = 0
    /\ requests_sent = <<>>
    /\ response = [kind |-> "none"]
    /\ search_result = [status |-> "None"]
    /\ printed = <<>>
    /\ results = <<>>
    /\ network = <<>>

\* no main runs
MainIdle ==
    /\ main_script = "none"
    /\ environ = {}
    /\ answer = ""
    /\ main_pc = "idle"
    /\ exit_status = "running"
    /\ effects = {}

\* none of the tools has been called
ToolsIdle ==
    /\ validation = [status |-> "pending"]
    /\ now = [date |-> 0, hour |-> 0, later |-> FALSE]
    /\ market_strategy = "none"
    /\ market_start = <<0, 0, 0>>
    /\ market_end = <<0, 0, 0>>
    /\ strategic_dates = [status |-> "pending"]
    /\ schedule_dates = [status |-> "pending"]

\* the aggregator has not been called
AggIdle ==
    /\ analysis = [status |-> "pending"]
    /\ email_report = [status |-> "pending"]

SamplerIdle ==
    /\ all_dates = <<>>
    /\ max_dates = 0
    /\ strategy = "none"
    /\ smart_selected = [status |-> "pending", dates |-> <<>>]
    /\ distributed_selected = [status |-> "pending", dates |-> <<>>]

ExtractIdle ==
    /\ search_data = [best_flights |-> <<>>, other_flights |-> <<>>]
    /\ flight_info = [status |-> "pending"]
    /\ extractor = "none"

\* An object of one of the scripts, before get_weekend_dates is called.
InitEnum ==
    /\ variant \in Variants
    /\ travel_year \in Years
    /\ start_month \in Months
    /\ end_month \in Months
    /\ \/ /\ variant = "monitor"
          /\ departure_days \in DaySets
          /\ trip_duration \in TripDurations
       \/ /\ variant \in {"paris", "traditional"}
          /\ departure_days = {2, 3}
          /\ trip_duration = ParisTripDays
       \/ /\ variant = "weekend"
          /\ departure_days = {2, 3, 4, 5}
          /\ trip_duration = WeekendTripDays
    /\ weekend_trips = Pending
    /\ SamplerIdle
    /\ ExtractIdle
    /\ ScanIdle
    /\ AggIdle
    /\ MainIdle
    /\ ToolsIdle

CallMonitor ==
    /\ variant = "monitor"
    /\ weekend_trips.status = "pending"
    /\ weekend_trips' = MonitorGetWeekendDates
    /\ UNCHANGED <<variant, travel_year, start_month, end_month,
                   departure_days, trip_duration, samplerVars, extractVars,
                   scanVars, aggVars, mainVars, toolVars>>

CallParis ==
    /\ variant = "paris"
    /\ weekend_trips.status = "pending"
    /\ weekend_trips' = ParisGetWeekendDates(start_month, end_month, travel_year)
    /\ UNCHANGED <<variant, travel_year, start_month, end_month,
                   departure_days, trip_duration, samplerVars, extractVars,
                   scanVars, aggVars, mainVars, toolVars>>

CallWeekend ==
    /\ variant = "weekend"
    /\ weekend_trips.status = "pending"
    /\ weekend_trips' = WeekendGetWeekendDates(start_month, end_month, travel_year)
    /\ UNCHANGED <<variant, travel_year, start_month, end_month,
                   departure_days, trip_duration, samplerVars, extractVars,
                   scanVars, aggVars, mainVars, toolVars>>

CallTraditional ==
    /\ variant = "traditional"
    /\ weekend_trips.status = "pending"
    /\ weekend_trips' =
           get_traditional_weekend_dates(start_month, end_month, travel_year)
    /\ UNCHANGED <<variant, travel_year, start_month, end_month,
                   departure_days, trip_duration, samplerVars, extractVars,
                   scanVars, aggVars, mainVars, toolVars>>

NextEnum == CallMonitor \/ CallParis \/ CallWeekend \/ CallTraditional

SpecEnum == InitEnum /\ [][NextEnum]_vars


-----------------------------------------------------------------------------
(* DateSampler *)

Min(a, b) == IF a <= b THEN a ELSE b

\* dep_date[:7], the 'YYYY-MM' prefix of a pair's departure
MonthKey(pair) == <<pair[1][1], pair[1][2]>>

\* 'YYYY-MM' strings compare as (year, month) does
KeyLess(a, b) == a[1] < b[1] \/ (a[1] = b[1] /\ a[2] < b[2])

\* sorted(dates_by_month.keys())
RECURSIVE SortedKeys(_)
SortedKeys(keys) ==
    IF keys = {}
    THEN <<>>
    ELSE LET least == CHOOSE k \in keys : \A o \in keys : o = k \/ KeyLess(k, o)
         IN  <<least>> \o SortedKeys(keys \ {least})

\* dates_by_month[month]: the pairs of the month, in list order
MonthDates(dates, month) ==
    SelectSeq(dates, LAMBDA pair : MonthKey(pair) = month)

\* months = sorted(dates_by_month.keys())
MonthsOf(dates) == SortedKeys({MonthKey(dates[k]) : k \in 1..Len(dates)})

\* num_from_month with the extra date given to every month
NumFromMonth_ExtraToAll(i, target, month_count) ==
    (target \div month_count) + 1

\* num_from_month for the month at 0-based position i
NumFromMonth(i, target, month_count) ==
    (target \div month_count) + (IF i < target % month_count THEN 1 ELSE 0)

\* the pairs of month_dates at the 0-based indices idxs[1], idxs[2], ... that
\* are below len(month_dates)
PickIndices(month_dates, idxs) ==
    LET kept == SelectSeq(idxs, LAMBDA idx : idx < Len(month_dates))
    IN  [k \in 1..Len(kept) |-> month_dates[kept[k] + 1]]

\* int(j * step) with step = count / num in IEEE-754 doubles.  It is
\* floor(j * count / num) for every count below 45 except where count / num
\* rounds down and j * step falls just short of an integer.
SmartIndex(j, count, num) ==
    IF <<count, num, j>> \in {<<30, 22, 11>>, <<30, 26, 13>>}
    THEN ((j * count) \div num) - 1
    ELSE (j * count) \div num

\* the evenly spaced indices counted from the second pair of the month
DistributedIndex_FromSecond(j, count, num) == j * (count \div num) + 1

\* select_distributed_dates: idx = j * step with step = count // num
DistributedIndex(j, count, num) == j * (count \div num)

\* select_smart_dates, the selection inside one month
SmartFromMonth(month_dates, num) ==
    IF Len(month_dates) <= num
    THEN [status |-> "ok", dates |-> month_dates]
    ELSE IF num = 0
    THEN [status |-> "ZeroDivisionError", dates |-> <<>>]
    ELSE [status |-> "ok",
          dates |-> PickIndices(month_dates,
                        [k \in 1..num |->
                            SmartIndex(k - 1, Len(month_dates), num)])]

\* select_distributed_dates, the selection inside one month
DistributedFromMonth(month_dates, num) ==
    IF Len(month_dates) <= num
    THEN [status |-> "ok", dates |-> month_dates]
    ELSE IF num = 0
    THEN [status |-> "ZeroDivisionError", dates |-> <<>>]
    ELSE [status |-> "ok",
          dates |-> PickIndices(month_dates,
                        [k \in 1..num |->
                            DistributedIndex(k - 1, Len(month_dates), num)])]

\* The loop over the months from 0-based position i on: selected_dates after
\* it, or the exception that ends it.
RECURSIVE SmartLoop(_, _, _, _, _)
SmartLoop(dates, months, i, target, selected_dates) ==
    IF i >= Len(months)
    THEN [status |-> "ok", dates |-> selected_dates]
    ELSE LET from_month ==
                 SmartFromMonth(MonthDates(dates, months[i + 1]),
                                NumFromMonth(i, target, Len(months)))
         IN  IF from_month.status # "ok"
             THEN from_month
             ELSE SmartLoop(dates, months, i + 1, target,
                            selected_dates \o from_month.dates)

RECURSIVE DistributedLoop(_, _, _, _, _)
DistributedLoop(dates, months, i, target, selected_dates) ==
    IF i >= Len(months)
    THEN [status |-> "ok", dates |-> selected_dates]
    ELSE LET from_month ==
                 DistributedFromMonth(MonthDates(dates, months[i + 1]),
                                      NumFromMonth(i, target, Len(months)))
         IN  IF from_month.status # "ok"
             THEN from_month
             ELSE DistributedLoop(dates, months, i + 1, target,
                                  selected_dates \o from_month.dates)

\* selected_dates[:target], for target >= 0
Prefix(dates, target) == SubSeq(dates, 1, Min(target, Len(dates)))

\* the early return taken only below the target
ReturnsAllDates_Strict(dates, target) == Len(dates) < target

\* the early return with its comparison inverted
ReturnsAllDates_Inverted(dates, target) == Len(dates) >= target

\* the early return of both samplers: len(all_dates) <= max_dates
ReturnsAllDates(dates, target) == Len(dates) <= target

\* the strategy table with the 'conservative' and 'weekly' entries exchanged
StrategyDates_Exchanged(st) ==
    IF st = "conservative" THEN WeeklyDates
    ELSE IF st = "weekly" THEN ConservativeDates
    ELSE IF st = "comprehensive" THEN ComprehensiveDates
    ELSE WeeklyDates

\* select_smart_dates' strategy table
StrategyDates(st) ==
    IF st = "conservative" THEN ConservativeDates
    ELSE IF st = "weekly" THEN WeeklyDates
    ELSE IF st = "comprehensive" THEN ComprehensiveDates
    ELSE WeeklyDates

\* ParisWeekendFinder.select_smart_dates(all_dates, strategy)
select_smart_dates(dates, st) ==
    LET target == StrategyDates(st)
    IN  IF ReturnsAllDates(dates, target)
        THEN [status |-> "ok", dates |-> dates]
        ELSE LET selected == SmartLoop(dates, MonthsOf(dates), 0, target, <<>>)
             IN  IF selected.status # "ok"
                 THEN selected
                 ELSE [status |-> "ok", dates |-> Prefix(selected.dates, target)]

\* WeekendFlightFinder.select_distributed_dates(all_dates, max_dates)
select_distributed_dates(dates, target) ==
    IF ReturnsAllDates(dates, target)
    THEN [status |-> "ok", dates |-> dates]
    ELSE LET selected ==
                 DistributedLoop(dates, MonthsOf(dates), 0, target, <<>>)
         IN  IF selected.status # "ok"
             THEN selected
             ELSE [status |-> "ok", dates |-> Prefix(selected.dates, target)]

Strategies == {"conservative", "weekly", "comprehensive", "other"}

SamplerMonths == FirstMonth .. (FirstMonth + NumMonths - 1)

\* weekday lists of the lists handed to the sampler: a single weekday, the
\* Paris finder's, the multi-destination finder's
SamplerDaySets == {{2}, {2, 3}, {2, 3, 4, 5}}

\* trip lengths of the lists handed to the sampler; the longest leaves the last
\* month of a range with fewer pairs than the months before it
SamplerTrips == {ParisTripDays, WeekendTripDays, MaxValidTrip - 5}

\* The enumerator has returned all_dates; no sampler has been called yet.
InitSampler ==
    /\ variant \in Variants
    /\ travel_year = FirstYear
    /\ start_month \in SamplerMonths
    /\ end_month \in SamplerMonths
    /\ start_month <= end_month
    /\ \/ /\ variant = "monitor"
          /\ departure_days \in SamplerDaySets
          /\ trip_duration \in SamplerTrips
       \/ /\ variant \in {"paris", "traditional"}
          /\ departure_days = {2, 3}
          /\ trip_duration = ParisTripDays
       \/ /\ variant = "weekend"
          /\ departure_days = {2, 3, 4, 5}
          /\ trip_duration = WeekendTripDays
    /\ weekend_trips = get_weekend_dates(travel_year, start_month, end_month,
                                         departure_days, trip_duration)
    /\ all_dates = weekend_trips.trips
    /\ max_dates \in 0..MaxDates
    /\ strategy = "none"
    /\ smart_selected = [status |-> "pending", dates |-> <<>>]
    /\ distributed_selected = [status |-> "pending", dates |-> <<>>]
    /\ ExtractIdle
    /\ ScanIdle
    /\ AggIdle
    /\ MainIdle
    /\ ToolsIdle

SelectSmart ==
    /\ smart_selected.status = "pending"
    /\ \E st \in Strategies :
          /\ strategy' = st
          /\ smart_selected' = select_smart_dates(all_dates, st)
    /\ UNCHANGED <<enumVars, all_dates, max_dates, distributed_selected,
                   extractVars, scanVars, aggVars, mainVars, toolVars>>

SelectDistributed ==
    /\ distributed_selected.status = "pending"
    /\ distributed_selected' = select_distributed_dates(all_dates, max_dates)
    /\ UNCHANGED <<enumVars, all_dates, max_dates, strategy, smart_selected,
                   extractVars, scanVars, aggVars, mainVars, toolVars>>

NextSampler == SelectSmart \/ SelectDistributed

SpecSampler == InitSampler /\ [][NextSampler]_vars

-----------------------------------------------------------------------------
(* QuoteExtractor *)

\* dict.get(key, default); a dict is a function whose domain is its keys
Get(dict, key, default) == IF key \in DOMAIN dict THEN dict[key] ELSE default

\* strftime('%A'), strftime('%B')
DayNames == <<"Monday", "Tuesday", "Wednesday", "Thursday", "Friday",
              "Saturday", "Sunday">>

MonthNames == <<"January", "February", "March", "April", "May", "June", "July",
                "August", "September", "October", "November", "December">>

\* an extractor that reads best_flights only
PickFlights_BestOnly(data) == Get(data, "best_flights", <<>>)

\* flights = search_data.get('best_flights', []); if not flights:
\* flights = search_data.get('other_flights', [])
PickFlights(data) ==
    LET flights == Get(data, "best_flights", <<>>)
    IN  IF flights = <<>> THEN Get(data, "other_flights", <<>>) ELSE flights

\* key(a) < key(b) for key = lambda x: x.get('price', float('inf'))
PriceKeyLess(a, b) ==
    /\ "price" \in DOMAIN a
    /\ ("price" \in DOMAIN b => a.price < b.price)

\* a min that keeps the first itinerary whatever the prices
MinIndex_First(flights) == 1

\* a min that keeps the last of the itineraries sharing the lowest key
MinIndex_Last(flights) ==
    CHOOSE i \in 1..Len(flights) :
        /\ \A j \in 1..Len(flights) : ~PriceKeyLess(flights[j], flights[i])
        /\ \A h \in (i + 1)..Len(flights) :
               \E j \in 1..Len(flights) : PriceKeyLess(flights[j], flights[h])

\* min(flights, key=...): the index of the first itinerary no other one is
\* below
MinIndex(flights) ==
    CHOOSE i \in 1..Len(flights) :
        /\ \A j \in 1..Len(flights) : ~PriceKeyLess(flights[j], flights[i])
        /\ \A h \in 1..(i - 1) :
               \E j \in 1..Len(flights) : PriceKeyLess(flights[j], flights[h])

\* carbon_info.get('this_flight', 0) / 1000 if carbon_info.get('this_flight')
\* else 0, held in thousandths of a kilogram
CarbonKgThousandths(best_flight) ==
    LET carbon_info == Get(best_flight, "carbon_emissions", << >>)
    IN  IF Get(carbon_info, "this_flight", 0) # 0
        THEN Get(carbon_info, "this_flight", 0)
        ELSE 0

\* flight_segments[0].get('airline', 'Unknown') if flight_segments else
\* 'Unknown'
AirlineOf(best_flight) ==
    LET flight_segments == Get(best_flight, "flights", <<>>)
    IN  IF flight_segments # <<>>
        THEN Get(flight_segments[1], "airline", "Unknown")
        ELSE "Unknown"

\* a direct flight recognised by its empty layover list
DirectFlight_NoLayovers(best_flight) ==
    Get(best_flight, "layovers", <<>>) = <<>>

\* len(flight_segments) == 1
DirectFlight(best_flight) == Len(Get(best_flight, "flights", <<>>)) = 1

\* a layover list read with l['id'] guarded by a membership test: the layovers
\* without an id are left out
LayoversOf_SkipMissing(best_flight) ==
    LET layovers == Get(best_flight, "layovers", <<>>)
        withId == SelectSeq(layovers, LAMBDA l : "id" \in DOMAIN l)
    IN  [k \in 1..Len(withId) |-> withId[k].id]

\* [l.get('id', 'Unknown') for l in layovers]
LayoversOf(best_flight) ==
    LET layovers == Get(best_flight, "layovers", <<>>)
    IN  [k \in 1..Len(layovers) |-> Get(layovers[k], "id", "Unknown")]

\* the fields every extractor of the repository reads off the chosen itinerary
CommonFields(best_flight, departure_date, return_date) ==
    [departure_date |-> departure_date,
     return_date |-> return_date,
     price |-> Get(best_flight, "price", 0),
     duration_minutes |-> Get(best_flight, "total_duration", 0),
     airline |-> AirlineOf(best_flight),
     direct_flight |-> DirectFlight(best_flight),
     layovers |-> LayoversOf(best_flight),
     carbon_kg |-> CarbonKgThousandths(best_flight)]

\* ConfigurableFlightMonitor.extract_flight_info
extract_flight_info(data, departure_date, return_date) ==
    LET flights == PickFlights(data)
    IN  IF flights = <<>>
        THEN [status |-> "None"]
        ELSE LET best_flight == flights[MinIndex(flights)]
                 fields == CommonFields(best_flight, departure_date, return_date)
             IN  [status |-> "ok",
                  record |-> [departure_date |-> fields.departure_date,
                      return_date |-> fields.return_date,
                      price |-> fields.price,
                      duration_minutes |-> fields.duration_minutes,
                      airline |-> fields.airline,
                      direct_flight |-> fields.direct_flight,
                      layovers |-> fields.layovers,
                      carbon_kg |-> fields.carbon_kg,
                      departure_day |->
                          DayNames[weekday(strptime(departure_date)) + 1],
                      return_day |->
                          DayNames[weekday(strptime(return_date)) + 1],
                      month |-> MonthNames[month_of(strptime(departure_date))]]]

\* ParisWeekendFinder.extract_best_flight
ParisExtractBestFlight(data, departure_date, return_date) ==
    LET flights == PickFlights(data)
    IN  IF flights = <<>>
        THEN [status |-> "None"]
        ELSE LET best_flight == flights[MinIndex(flights)]
                 fields == CommonFields(best_flight, departure_date, return_date)
             IN  [status |-> "ok",
                  record |-> [departure_date |-> fields.departure_date,
                      return_date |-> fields.return_date,
                      price |-> fields.price,
                      duration_minutes |-> fields.duration_minutes,
                      carbon_kg |-> fields.carbon_kg,
                      airline |-> fields.airline,
                      direct_flight |-> fields.direct_flight,
                      layovers |-> fields.layovers,
                      search_data |-> best_flight]]

\* WeekendFlightFinder.extract_best_flight
WeekendExtractBestFlight(data, destination, destination_city, departure_date, return_date) ==
    LET flights == PickFlights(data)
    IN  IF flights = <<>>
        THEN [status |-> "None"]
        ELSE LET best_flight == flights[MinIndex(flights)]
                 fields == CommonFields(best_flight, departure_date, return_date)
             IN  [status |-> "ok",
                  record |-> [destination |-> destination,
                      destination_city |-> destination_city,
                      departure_date |-> fields.departure_date,
                      return_date |-> fields.return_date,
                      price |-> fields.price,
                      duration_minutes |-> fields.duration_minutes,
                      carbon_kg |-> fields.carbon_kg,
                      airline |-> fields.airline,
                      direct_flight |-> fields.direct_flight,
                      layovers |-> fields.layovers,
                      search_data |-> best_flight]]

\* the prices of the itineraries of a response
Prices == {100, 200}

\* what a priced itinerary of a response holds besides its price: a direct
\* flight, a connecting flight, nothing at all, and every key present with its
\* inner keys missing
Details ==
    { [total_duration |-> 300,
       flights |-> <<[airline |-> "El Al"]>>,
       layovers |-> <<>>,
       carbon_emissions |-> [this_flight |-> 250000]],
      [total_duration |-> 500,
       flights |-> <<[airline |-> "Lufthansa"], [airline |-> "Air France"]>>,
       layovers |-> <<[id |-> "FRA"]>>,
       carbon_emissions |-> [this_flight |-> 410000]],
      << >>,
      [flights |-> << << >> >>,
       layovers |-> << << >> >>,
       carbon_emissions |-> << >>] }

\* the itineraries without a price: an empty object, and one with every other
\* key present
Unpriced ==
    { << >>,
      [total_duration |-> 300,
       flights |-> <<[airline |-> "El Al"]>>,
       layovers |-> <<>>,
       carbon_emissions |-> [this_flight |-> 250000]] }

\* a dict with the keys of both
Merge(a, b) ==
    [k \in DOMAIN a \cup DOMAIN b |-> IF k \in DOMAIN a THEN a[k] ELSE b[k]]

Itineraries ==
    Unpriced \cup {Merge([price |-> p], d) : p \in Prices, d \in Details}

\* the lists of at most n itineraries
FlightLists(n) == UNION {[1..k -> Itineraries] : k \in 0..n}

\* the API responses: each list key absent, or present with a list
Responses ==
    { Merge(b, o) :
        b \in {<< >>} \cup {[best_flights |-> l] : l \in FlightLists(MaxBest)},
        o \in {<< >>} \cup {[other_flights |-> l] : l \in FlightLists(MaxOther)} }

\* the date pair of the request: the first pair of the Paris finder's list
RequestDates == <<(<<2026, 4, 1>>), (<<2026, 4, 5>>)>>

EnumIdle ==
    /\ variant = "none"
    /\ travel_year = FirstYear
    /\ start_month = FirstMonth
    /\ end_month = LastFinderMonth
    /\ departure_days = {2, 3}
    /\ trip_duration = ParisTripDays
    /\ weekend_trips = Pending

\* A response has been received and parsed; no extractor has been called yet.
InitExtract ==
    /\ EnumIdle
    /\ SamplerIdle
    /\ ScanIdle
    /\ AggIdle
    /\ MainIdle
    /\ ToolsIdle
    /\ search_data \in Responses
    /\ flight_info = [status |-> "pending"]
    /\ extractor = "none"

ExtractMonitor ==
    /\ flight_info.status = "pending"
    /\ flight_info' =
           extract_flight_info(search_data, RequestDates[1], RequestDates[2])
    /\ extractor' = "monitor"
    /\ UNCHANGED <<enumVars, samplerVars, search_data, scanVars, aggVars,
                   mainVars, toolVars>>

ExtractParis ==
    /\ flight_info.status = "pending"
    /\ flight_info' =
           ParisExtractBestFlight(search_data, RequestDates[1], RequestDates[2])
    /\ extractor' = "paris"
    /\ UNCHANGED <<enumVars, samplerVars, search_data, scanVars, aggVars,
                   mainVars, toolVars>>

ExtractWeekend ==
    /\ flight_info.status = "pending"
    /\ \E dest \in {<<"paris", "Paris">>, <<"london", "London">>} :
           flight_info' =
               WeekendExtractBestFlight(search_data, dest[1], dest[2],
                                        RequestDates[1], RequestDates[2])
    /\ extractor' = "weekend"
    /\ UNCHANGED <<enumVars, samplerVars, search_data, scanVars, aggVars,
                   mainVars, toolVars>>

NextExtract == ExtractMonitor \/ ExtractParis \/ ExtractWeekend

SpecExtract == InitExtract /\ [][NextExtract]_vars

-----------------------------------------------------------------------------
(* QuoteExtractor on itineraries with keys missing *)

\* a flight segment without its airline, and one with it
Segments == { << >>, [airline |-> "El Al"] }

\* a layover without its id, and one with it
Layovers == { << >>, [id |-> "FRA"] }

\* the lists of at most n elements of S
ListsOf(S, n) == UNION {[1..k -> S] : k \in 0..n}

\* a key of a dict that may be absent: the empty dict, or the key with one of
\* the values
Optional(key, values) == { << >> } \cup { [k \in {key} |-> v] : v \in values }

\* the itineraries holding any subset of the keys price, total_duration,
\* flights, layovers and carbon_emissions
SparseItineraries ==
    { Merge(Merge(Merge(Merge(p, d), f), l), c) :
        p \in Optional("price", {100}),
        d \in Optional("total_duration", {300}),
        f \in Optional("flights", ListsOf(Segments, MaxSegments)),
        l \in Optional("layovers", ListsOf(Layovers, MaxLayovers)),
        c \in Optional("carbon_emissions",
                       { << >>, [this_flight |-> 0], [this_flight |-> 250000] }) }

\* the responses holding one such itinerary: in best_flights, in other_flights
\* with best_flights absent, and in other_flights with best_flights empty
SparseResponses ==
    UNION { { [best_flights |-> <<it>>],
              [other_flights |-> <<it>>],
              [best_flights |-> <<>>, other_flights |-> <<it>>] } :
            it \in SparseItineraries }

\* A response holding a sparse itinerary has been received and parsed; no
\* extractor has been called yet.
InitFields ==
    /\ EnumIdle
    /\ SamplerIdle
    /\ ScanIdle
    /\ AggIdle
    /\ MainIdle
    /\ ToolsIdle
    /\ search_data \in SparseResponses
    /\ flight_info = [status |-> "pending"]
    /\ extractor = "none"

SpecFields == InitFields /\ [][NextExtract]_vars

-----------------------------------------------------------------------------
(* ResultAggregator *)

\* sum(prices)
RECURSIVE SumSeq(_)
SumSeq(s) == IF s = <<>> THEN 0 ELSE Head(s) + SumSeq(Tail(s))

\* min(prices), max(prices)
MinOf(s) == CHOOSE x \in {s[i] : i \in 1..Len(s)} :
                \A i \in 1..Len(s) : x <= s[i]

MaxOf(s) == CHOOSE x \in {s[i] : i \in 1..Len(s)} :
                \A i \in 1..Len(s) : x >= s[i]

\* one step of a stable sort: x goes after the elements not above it
InsertSorted(s, x) ==
    LET below == SelectSeq(s, LAMBDA y : y <= x)
        above == SelectSeq(s, LAMBDA y : y > x)
    IN  below \o <<x>> \o above

\* sorted(prices)
RECURSIVE sorted(_)
sorted(s) ==
    IF s = <<>>
    THEN <<>>
    ELSE InsertSorted(sorted(SubSeq(s, 1, Len(s) - 1)), s[Len(s)])

\* the keys of a dict filled in list order: each label where it is first seen
FirstSeen(labels) ==
    LET firsts == SelectSeq([i \in 1..Len(labels) |-> i],
                            LAMBDA i : \A j \in 1..(i - 1) :
                                           labels[j] # labels[i])
    IN  [k \in 1..Len(firsts) |-> labels[firsts[k]]]

\* [r['price'] for r in results]
PricesOf(records) == [i \in 1..Len(records) |-> records[i].price]

\* min(results, key=lambda x: x['price'] if x['month'] == month else
\* float('inf')): the first record of the month at the month's lowest price
BestDealOf(records, month) ==
    LET i == CHOOSE i \in 1..Len(records) :
                 /\ records[i].month = month
                 /\ \A j \in 1..Len(records) :
                        records[j].month = month =>
                            records[i].price <= records[j].price
                 /\ \A h \in 1..(i - 1) :
                        records[h].month = month =>
                            records[h].price > records[i].price
    IN  records[i]

\* a month entry computed over the records of every month
ByMonthEntry_AllRecords(records, month) ==
    [count |-> Len(records),
     min_price |-> MinOf(PricesOf(records)),
     avg_price |-> SumSeq(PricesOf(records)) \div Len(records),
     best_deal |-> BestDealOf(records, month)]

\* analysis['by_month'][month]
ByMonthEntry(records, month) ==
    LET month_prices ==
            PricesOf(SelectSeq(records, LAMBDA r : r.month = month))
    IN  [count |-> Len(month_prices),
         min_price |-> MinOf(month_prices),
         avg_price |-> SumSeq(month_prices) \div Len(month_prices),
         best_deal |-> BestDealOf(records, month)]

\* analysis['by_day'][day]
ByDayEntry(records, day) ==
    LET day_prices ==
            PricesOf(SelectSeq(records, LAMBDA r : r.departure_day = day))
    IN  [count |-> Len(day_prices),
         avg_price |-> SumSeq(day_prices) \div Len(day_prices)]

\* the last TopDeals records of the list
BestDeals_Last(records) ==
    SubSeq(records, Len(records) - Min(TopDeals, Len(records)) + 1,
           Len(records))

\* analysis['best_deals'] = results[:5]
BestDeals(records) == Prefix(records, TopDeals)

\* the median of an even count taken below the middle
MedianIndex_Lower(n) == (n + 1) \div 2

\* len(prices) // 2, as a 1-based index
MedianIndex(n) == (n \div 2) + 1

\* ConfigurableFlightMonitor.analyze_results.  The report is the returned
\* dict; by_month_keys and by_day_keys hold the order in which the two inner
\* dicts were filled.
analyze_results(records, calls) ==
    IF records = <<>>
    THEN [status |-> "ok", report |-> << >>]
    ELSE LET prices == PricesOf(records)
             months == FirstSeen([i \in 1..Len(records) |-> records[i].month])
             days == FirstSeen([i \in 1..Len(records) |->
                                   records[i].departure_day])
         IN  [status |-> "ok",
              report |->
                  [total_options |-> Len(records),
                   price_min |-> MinOf(prices),
                   price_max |-> MaxOf(prices),
                   price_avg |-> SumSeq(prices) \div Len(prices),
                   price_median |-> sorted(prices)[MedianIndex(Len(prices))],
                   api_calls_used |-> calls,
                   by_month_keys |-> months,
                   by_month |->
                       [m \in {months[k] : k \in 1..Len(months)} |->
                           ByMonthEntry(records, m)],
                   by_day_keys |-> days,
                   by_day |->
                       [d \in {days[k] : k \in 1..Len(days)} |->
                           ByDayEntry(records, d)],
                   best_deals |-> BestDeals(records),
                   direct_flights |->
                       SelectSeq(records, LAMBDA r : r.direct_flight)]]

\* min(analysis.get('by_month', {}).items(), key=lambda x:
\* x[1]['min_price'])[0] if analysis.get('by_month') else 'N/A'
BestMonth(a) ==
    LET keys == Get(a, "by_month_keys", <<>>)
        by_month == Get(a, "by_month", << >>)
    IN  IF keys = <<>>
        THEN "N/A"
        ELSE LET i == CHOOSE i \in 1..Len(keys) :
                          /\ \A j \in 1..Len(keys) :
                                 by_month[keys[i]].min_price
                                     <= by_month[keys[j]].min_price
                          /\ \A h \in 1..(i - 1) :
                                 by_month[keys[h]].min_price
                                     > by_month[keys[i]].min_price
             IN  keys[i]

\* a renderer reading analysis['price_min'] by subscript
generate_email_report_Subscript(a) ==
    IF "price_min" \in DOMAIN a
    THEN [status |-> "ok", stats |-> a]
    ELSE [status |-> "KeyError"]

\* ConfigurableFlightMonitor.generate_email_report: the values the HTML shows
generate_email_report(a) ==
    LET keys == Get(a, "by_month_keys", <<>>)
        by_month == Get(a, "by_month", << >>)
    IN  [status |-> "ok",
         stats |->
             [price_min |-> Get(a, "price_min", 0),
              price_avg |-> Get(a, "price_avg", 0),
              total_options |-> Get(a, "total_options", 0),
              api_calls_used |-> Get(a, "api_calls_used", 0),
              best_deals |-> Prefix(Get(a, "best_deals", <<>>), TopDeals),
              months |->
                  [k \in 1..Len(keys) |->
                      [month |-> keys[k],
                       count |-> by_month[keys[k]].count,
                       min_price |-> by_month[keys[k]].min_price,
                       avg_price |-> by_month[keys[k]].avg_price,
                       best_price |-> by_month[keys[k]].best_deal.price]],
              price_max |-> Get(a, "price_max", 0),
              spread |-> Get(a, "price_max", 0) - Get(a, "price_min", 0),
              direct_flights |-> Len(Get(a, "direct_flights", <<>>)),
              best_month |-> BestMonth(a)]]

\* the prices of the records handed to the aggregator
AggPrices == {100, 200, 300, 400}

\* the date pairs of the records: every third pair the monitor enumerates
\* with its default configuration
AggDates ==
    LET trips == get_weekend_dates(FirstYear, FirstMonth, LastFinderMonth,
                                   {2, 3}, ParisTripDays).trips
    IN  [k \in 1..MaxRecords |-> trips[3 * k - 2]]

\* the itinerary behind the k-th record: direct for odd k, connecting for
\* even k
AggItinerary(k, price) ==
    IF k % 2 = 1
    THEN [price |-> price,
          total_duration |-> 300,
          flights |-> <<[airline |-> "El Al"]>>,
          layovers |-> <<>>,
          carbon_emissions |-> [this_flight |-> 250000]]
    ELSE [price |-> price,
          total_duration |-> 500,
          flights |-> <<[airline |-> "Lufthansa"], [airline |-> "Air France"]>>,
          layovers |-> <<[id |-> "FRA"]>>,
          carbon_emissions |-> [this_flight |-> 410000]]

\* the record the monitor extracts for the k-th date pair
AggRecord(k, price) ==
    extract_flight_info([best_flights |-> <<AggItinerary(k, price)>>],
                        AggDates[k][1], AggDates[k][2]).record

\* the lists of at most `longest` records, one per date pair, in date order
\* and with every assignment of prices
ResultLists(longest) ==
    UNION { { [k \in 1..n |-> AggRecord(k, prices[k])] :
                prices \in [1..n -> AggPrices] } : n \in 0..longest }

\* analyze_results is about to be called on a list of records; the counter
\* holds one call per record, and possibly one call that gave no record.
InitAggregate ==
    /\ EnumIdle
    /\ SamplerIdle
    /\ ExtractIdle
    /\ scanner = "none"
    /\ scan_dates = <<>>
    /\ position = 0
    /\ pc = "idle"
    /\ requests_sent = <<>>
    /\ response = [kind |-> "none"]
    /\ search_result = [status |-> "None"]
    /\ printed = <<>>
    /\ results \in ResultLists(MaxRecords)
    /\ network = <<>>
    /\ api_calls_used \in {Len(results), Len(results) + 1}
    /\ AggIdle
    /\ MainIdle
    /\ ToolsIdle

Analyze ==
    /\ analysis.status = "pending"
    /\ analysis' = analyze_results(results, api_calls_used)
    /\ UNCHANGED <<enumVars, samplerVars, extractVars, scanVars, email_report,
                   mainVars, toolVars>>

Render ==
    /\ analysis.status = "ok"
    /\ email_report.status = "pending"
    /\ email_report' = generate_email_report(analysis.report)
    /\ UNCHANGED <<enumVars, samplerVars, extractVars, scanVars, analysis,
                   mainVars, toolVars>>

NextAggregate == Analyze \/ Render

SpecAggregate == InitAggregate /\ [][NextAggregate]_vars

-----------------------------------------------------------------------------
(* Scan loop: search_flight / run_complete_scan, search_flights /           *)
(* find_best_paris_flights / find_best_weekend_flights                      *)

\* the arrival_id of the searches of a script, in the order of the outer
\* loop: the configured route, Paris, or the destinations dict
ArrivalIds(script) ==
    IF script = "weekend" THEN <<"CDG,ORY", "LHR,LGW,STN">> ELSE <<"CDG,ORY">>

\* the key and city of a destination of the multi-destination finder
DestinationOf(arrival_id) ==
    IF arrival_id = "CDG,ORY"
    THEN [key |-> "paris", city |-> "Paris"]
    ELSE [key |-> "london", city |-> "London"]

\* the number of requests of a complete run
TotalRequests == Len(ArrivalIds(scanner)) * Len(scan_dates)

\* the parameters of the request made after p requests: the outer loop goes
\* over the destinations, the inner one over the date pairs
RequestAt(p) ==
    LET n == Len(scan_dates)
    IN  [arrival_id |-> ArrivalIds(scanner)[(p \div n) + 1],
         outbound_date |-> scan_dates[(p % n) + 1][1],
         return_date |-> scan_dates[(p % n) + 1][2]]

\* the extractor of the running script applied to a response
ExtractFor(script, data, request) ==
    IF script = "monitor"
    THEN extract_flight_info(data, request.outbound_date, request.return_date)
    ELSE IF script = "paris"
    THEN ParisExtractBestFlight(data, request.outbound_date,
                                request.return_date)
    ELSE WeekendExtractBestFlight(data,
                                  DestinationOf(request.arrival_id).key,
                                  DestinationOf(request.arrival_id).city,
                                  request.outbound_date, request.return_date)

\* a sort step that puts the record before the records of its price
InsertByPrice_BeforeEquals(records, r) ==
    LET below == SelectSeq(records, LAMBDA x : x.price < r.price)
        above == SelectSeq(records, LAMBDA x : x.price >= r.price)
    IN  below \o <<r>> \o above

\* one step of results.sort(key=lambda x: x['price']): the record goes after
\* the records not above it
InsertByPrice(records, r) ==
    LET below == SelectSeq(records, LAMBDA x : x.price <= r.price)
        above == SelectSeq(records, LAMBDA x : x.price > r.price)
    IN  below \o <<r>> \o above

\* results.sort(key=lambda x: x['price']), a stable sort
RECURSIVE SortByPrice(_)
SortByPrice(records) ==
    IF records = <<>>
    THEN <<>>
    ELSE InsertByPrice(SortByPrice(SubSeq(records, 1, Len(records) - 1)),
                       records[Len(records)])

\* the JSON objects a search answers with (status 200, no error field): best
\* list used although other_flights is cheaper, fall back to other_flights,
\* both lists empty, both lists absent, and the empty object
ScanResponses ==
    { [best_flights |-> <<AggItinerary(1, 200)>>,
       other_flights |-> <<AggItinerary(2, 100)>>],
      [best_flights |-> <<>>,
       other_flights |-> <<AggItinerary(2, 300), AggItinerary(1, 150)>>],
      [best_flights |-> <<>>, other_flights |-> <<>>],
      [search_metadata |-> [status |-> "Success"]],
      << >> }

\* the ways a requests.get can end: it raises (a timeout, a connection
\* error); a status other than 200, whatever the body; a 200 whose body
\* response.json() cannot parse; a 200 with an object holding an error field,
\* alone or next to itineraries; a 200 with one of the objects above
ScanOutcomes ==
    { [kind |-> "raised"],
      [kind |-> "http", status_code |-> 429, parses |-> TRUE,
       data |-> [error |-> "Your account has run out of searches."]],
      [kind |-> "http", status_code |-> 500, parses |-> TRUE,
       data |-> [best_flights |-> <<AggItinerary(1, 200)>>]],
      [kind |-> "http", status_code |-> 200, parses |-> FALSE],
      [kind |-> "http", status_code |-> 200, parses |-> TRUE,
       data |-> [error |-> "Invalid API key."]],
      [kind |-> "http", status_code |-> 200, parses |-> TRUE,
       data |-> [error |-> "Google Flights hasn't returned any results.",
                 best_flights |-> <<AggItinerary(1, 200)>>]] }
    \cup { [kind |-> "http", status_code |-> 200, parses |-> TRUE,
            data |-> d] : d \in ScanResponses }

\* the trip lengths of the monitor's runs: with departures on the Wednesdays
\* of one month they leave 3, 2, 1 and 0 date pairs
ScanTrips == {10, 20, 25, 30}

\* A script has enumerated and selected its date pairs and is about to enter
\* its loop: the monitor with a one-month configuration, the Paris finder
\* with its conservative strategy, the multi-destination finder with the
\* three dates per destination its main asks for.
InitScan ==
    /\ scanner \in {"monitor", "paris", "weekend"}
    /\ variant = "none"
    /\ travel_year = FirstYear
    /\ start_month = FirstMonth
    /\ weekend_trips = Pending
    /\ \/ /\ scanner = "monitor"
          /\ end_month = FirstMonth
          /\ departure_days = {2}
          /\ trip_duration \in ScanTrips
          /\ scan_dates = get_weekend_dates(travel_year, start_month,
                              end_month, departure_days, trip_duration).trips
       \/ /\ scanner = "paris"
          /\ end_month = LastFinderMonth
          /\ departure_days = {2, 3}
          /\ trip_duration = ParisTripDays
          /\ scan_dates =
                 select_smart_dates(
                     get_weekend_dates(travel_year, start_month, end_month,
                                       departure_days, trip_duration).trips,
                     "conservative").dates
       \/ /\ scanner = "weekend"
          /\ end_month = LastFinderMonth
          /\ departure_days = {2, 3, 4, 5}
          /\ trip_duration = WeekendTripDays
          /\ scan_dates =
                 select_distributed_dates(
                     get_weekend_dates(travel_year, start_month, end_month,
                                       departure_days, trip_duration).trips,
                     WeekendOptions).dates
    /\ SamplerIdle
    /\ ExtractIdle
    /\ position = 0
    /\ pc = "loop"
    /\ api_calls_used = 0
    /\ requests_sent = <<>>
    /\ response = [kind |-> "none"]
    /\ search_result = [status |-> "None"]
    /\ printed = <<>>
    /\ results = <<>>
    /\ network = <<ScanOutcomes>>
    /\ AggIdle
    /\ MainIdle
    /\ ToolsIdle

\* requests.get is called for the next date pair and blocks
IssueRequest ==
    /\ pc = "loop"
    /\ position < TotalRequests
    /\ requests_sent' = Append(requests_sent, RequestAt(position))
    /\ pc' = "waiting"
    /\ UNCHANGED <<enumVars, samplerVars, extractVars, scanner, network,
                   scan_dates, position, api_calls_used, response,
                   search_result, printed, results, aggVars, mainVars,
                   toolVars>>

\* a search that hands back every parsed object of a 200 response, whether
\* or not it holds an error field
search_flight_IgnoreErrorField(outcome) ==
    IF outcome.kind = "raised"
    THEN [returned |-> [status |-> "None"], calls |-> 0]
    ELSE IF outcome.status_code = 200 /\ outcome.parses
    THEN [returned |-> [status |-> "ok", data |-> outcome.data], calls |-> 1]
    ELSE [returned |-> [status |-> "None"], calls |-> 1]

\* search_flight / search_flights on a request that ended as `outcome`: what
\* it returns, and by how much it advances self.api_calls_used
search_flight(outcome) ==
    IF outcome.kind = "raised"
    THEN [returned |-> [status |-> "None"], calls |-> 0]
    ELSE IF outcome.status_code = 200
    THEN IF ~outcome.parses
         THEN [returned |-> [status |-> "None"], calls |-> 1]
         ELSE IF "error" \notin DOMAIN outcome.data
         THEN [returned |-> [status |-> "ok", data |-> outcome.data],
               calls |-> 1]
         ELSE [returned |-> [status |-> "None"], calls |-> 1]
    ELSE [returned |-> [status |-> "None"], calls |-> 1]

\* the outcomes the request made after p requests can have: the run meets
\* the entries of network one after the other, over and over
OutcomesAt(p) == network[(p % Len(network)) + 1]

\* requests.get raises (a timeout, a connection error): the except clause
\* returns None, and the counter line is not reached
RequestRaises ==
    /\ pc = "waiting"
    /\ \E outcome \in OutcomesAt(position) :
           /\ outcome.kind = "raised"
           /\ response' = outcome
           /\ search_result' = search_flight(outcome).returned
           /\ api_calls_used' = api_calls_used + search_flight(outcome).calls
    /\ pc' = "received"
    /\ UNCHANGED <<enumVars, samplerVars, extractVars, scanner, network,
                   scan_dates, position, requests_sent, printed, results,
                   aggVars, mainVars, toolVars>>

\* a response arrives for which the search returns None: a status other than
\* 200, a body that response.json() cannot parse, or an object with an error
\* field
ResponseWithoutData ==
    /\ pc = "waiting"
    /\ \E outcome \in OutcomesAt(position) :
           /\ outcome.kind = "http"
           /\ search_flight(outcome).returned.status = "None"
           /\ response' = outcome
           /\ search_result' = search_flight(outcome).returned
           /\ api_calls_used' = api_calls_used + search_flight(outcome).calls
    /\ pc' = "received"
    /\ UNCHANGED <<enumVars, samplerVars, extractVars, scanner, network,
                   scan_dates, position, requests_sent, printed, results,
                   aggVars, mainVars, toolVars>>

\* a response arrives whose parsed object the search returns
ResponseWithData ==
    /\ pc = "waiting"
    /\ \E outcome \in OutcomesAt(position) :
           /\ outcome.kind = "http"
           /\ search_flight(outcome).returned.status = "ok"
           /\ response' = outcome
           /\ search_result' = search_flight(outcome).returned
           /\ api_calls_used' = api_calls_used + search_flight(outcome).calls
    /\ pc' = "received"
    /\ UNCHANGED <<enumVars, samplerVars, extractVars, scanner, network,
                   scan_dates, position, requests_sent, printed, results,
                   aggVars, mainVars, toolVars>>

\* if search_result: (None and the empty object are false)
Truthy(result) == result.status = "ok" /\ result.data # << >>

\* a loop body that gives the scan up when the search failed
ProcessResult_AbortOnFailure ==
    /\ pc = "received"
    /\ IF Truthy(search_result)
       THEN LET info == ExtractFor(scanner, search_result.data,
                                   RequestAt(position))
            IN  /\ flight_info' = info
                /\ results' = IF info.status = "ok"
                              THEN Append(results, info.record)
                              ELSE results
                /\ printed' = Append(printed, IF info.status = "ok"
                                              THEN "found"
                                              ELSE "No flights found")
                /\ pc' = "loop"
       ELSE /\ printed' = Append(printed, "Search failed")
            /\ pc' = "done"
            /\ UNCHANGED <<flight_info, results, mainVars, toolVars>>
    /\ position' = position + 1
    /\ UNCHANGED <<enumVars, samplerVars, search_data, extractor, scanner,
                   network, scan_dates, api_calls_used, requests_sent,
                   response, search_result, aggVars, mainVars, toolVars>>

\* the body of the loop after the search returned
ProcessResult ==
    /\ pc = "received"
    /\ IF Truthy(search_result)
       THEN LET info == ExtractFor(scanner, search_result.data,
                                   RequestAt(position))
            IN  /\ flight_info' = info
                /\ IF info.status = "ok"
                   THEN /\ results' = Append(results, info.record)
                        /\ printed' = Append(printed, "found")
                   ELSE /\ results' = results
                        /\ printed' = Append(printed, "No flights found")
       ELSE /\ printed' = Append(printed, "Search failed")
            /\ UNCHANGED <<flight_info, results, mainVars, toolVars>>
    /\ position' = position + 1
    /\ pc' = "loop"
    /\ UNCHANGED <<enumVars, samplerVars, search_data, extractor, scanner,
                   network, scan_dates, api_calls_used, requests_sent,
                   response, search_result, aggVars, mainVars, toolVars>>

\* after the last pair: the results are sorted by price and returned
FinishScan ==
    /\ pc = "loop"
    /\ position = TotalRequests
    /\ results' = SortByPrice(results)
    /\ pc' = "done"
    /\ UNCHANGED <<enumVars, samplerVars, extractVars, scanner, network,
                   scan_dates, position, api_calls_used, requests_sent,
                   response, search_result, printed, aggVars, mainVars,
                   toolVars>>

NextScan ==
    \/ IssueRequest
    \/ RequestRaises
    \/ ResponseWithoutData
    \/ ResponseWithData
    \/ ProcessResult
    \/ FinishScan

SpecScan == InitScan /\ [][NextScan]_vars

\* the runs of the single-destination scripts
InitSingleScan == InitScan /\ scanner \in {"monitor", "paris"}

\* Every request ends (the timeout bounds the wait) and the loop goes on: the
\* runs of the monitor and of the Paris finder, with a step taken whenever
\* one is possible.
SpecScanLive == InitSingleScan /\ [][NextScan]_vars /\ WF_vars(NextScan)

-----------------------------------------------------------------------------
(* main: the start of a script, its confirmation prompt, its scan and its  *)
(* exit                                                                     *)

\* find_best_weekend_flights(max_options_per_destination=50)
CompleteOptions == 50
\* get_weekly_sampled_dates: the number of dates aimed at, and the cap
WeeklyTarget == 13

\* the scripts whose main is modelled: automated_flight_monitor,
\* paris_weekend_finder, weekend_flight_finder, complete_coverage_finder and
\* weekly_flight_finder
Scripts == {"monitor", "paris", "weekend", "complete", "weekly"}

\* the large-quota scripts, which ask before they search
ConfirmingScripts == {"complete", "weekly"}

Credentials == {"SERPAPI_KEY", "EMAIL_USER", "EMAIL_PASS", "EMAIL_TO"}

\* a start that asks for the API key only, whatever the script
RequiredCredentials_KeyOnly(name) == {"SERPAPI_KEY"}

\* the credentials a script refuses to start without
RequiredCredentials(name) ==
    IF name = "monitor" THEN Credentials ELSE {"SERPAPI_KEY"}

\* str.lower() on one character, for the characters of the answers
LowerChar(c) ==
    CASE c = "Y" -> "y"
      [] c = "E" -> "e"
      [] c = "S" -> "s"
      [] c = "N" -> "n"
      [] c = "O" -> "o"
      [] OTHER -> c

\* str.lower(): a string is the sequence of its characters
lower(string) == [i \in 1..Len(string) |-> LowerChar(string[i])]

\* end of input at the prompt: input() raises EOFError
EndOfInput == <<"EOF">>

\* what the user may type at the prompt (input() drops the newline)
Answers ==
    { <<>>, <<"y">>, <<"Y">>, <<"n">>, <<"N">>, <<"y", "e", "s">>,
      <<"Y", "E", "S">>, <<" ", "y">>, <<"n", "o">>, EndOfInput }

\* weekly_flight_finder.get_weekly_sampled_dates(start_month, end_month, year)
get_weekly_sampled_dates(first_month, last_month, year) ==
    LET all == WeekendGetWeekendDates(first_month, last_month, year).trips
        step == IF Len(all) \div WeeklyTarget >= 1
                THEN Len(all) \div WeeklyTarget
                ELSE 1
        \* range(0, len(all_dates), step)
        indices == {i \in 0..(Len(all) - 1) : i % step = 0}
        kept == IF Cardinality(indices) < WeeklyTarget
                THEN Cardinality(indices)
                ELSE WeeklyTarget
    IN  [k \in 1..kept |-> all[(k - 1) * step + 1]]

\* the class whose loop a script runs
ScannerOf(name) ==
    IF name \in {"monitor", "paris"} THEN name ELSE "weekend"

\* the complete-coverage script calling find_best_weekend_flights with its
\* default of three options per destination
DatesOf_DefaultOptions(name) ==
    IF name = "monitor"
    THEN MonitorGetWeekendDates.trips
    ELSE IF name = "paris"
    THEN select_smart_dates(
             ParisGetWeekendDates(FirstMonth, LastFinderMonth,
                                  FirstYear).trips, "weekly").dates
    ELSE IF name \in {"weekend", "complete"}
    THEN select_distributed_dates(
             WeekendGetWeekendDates(FirstMonth, LastFinderMonth,
                                    FirstYear).trips, WeekendOptions).dates
    ELSE get_weekly_sampled_dates(FirstMonth, LastFinderMonth, FirstYear)

\* the date pairs the loop of a script goes through, from the arguments its
\* main passes
DatesOf(name) ==
    IF name = "monitor"
    THEN MonitorGetWeekendDates.trips
    ELSE IF name = "paris"
    THEN select_smart_dates(
             ParisGetWeekendDates(FirstMonth, LastFinderMonth,
                                  FirstYear).trips, "weekly").dates
    ELSE IF name = "weekend"
    THEN select_distributed_dates(
             WeekendGetWeekendDates(FirstMonth, LastFinderMonth,
                                    FirstYear).trips, WeekendOptions).dates
    ELSE IF name = "complete"
    THEN select_distributed_dates(
             WeekendGetWeekendDates(FirstMonth, LastFinderMonth,
                                    FirstYear).trips, CompleteOptions).dates
    ELSE get_weekly_sampled_dates(FirstMonth, LastFinderMonth, FirstYear)

\* the network a run meets: every request ends the same way, or the ways
\* alternate
NetworkPatterns ==
    { <<{o}>> : o \in ScanOutcomes }
    \cup { <<{[kind |-> "raised"]},
             {[kind |-> "http", status_code |-> 200, parses |-> TRUE,
               data |-> [best_flights |-> <<AggItinerary(1, 200)>>,
                         other_flights |-> <<AggItinerary(2, 100)>>]]}>>,
           <<{[kind |-> "http", status_code |-> 200, parses |-> TRUE,
               data |-> [best_flights |-> <<>>,
                         other_flights |-> <<AggItinerary(2, 300),
                                             AggItinerary(1, 150)>>]]},
             {[kind |-> "http", status_code |-> 200, parses |-> FALSE]},
             {[kind |-> "http", status_code |-> 429, parses |-> TRUE,
               data |-> [error |-> "Your account has run out of searches."]]}>> }

\* A script is started with some of the credentials set; the monitor runs
\* with its default configuration (April to June, Wednesdays and Thursdays,
\* four days).
InitMain ==
    /\ main_script \in Scripts
    /\ environ \in SUBSET Credentials
    /\ answer \in IF main_script \in ConfirmingScripts THEN Answers ELSE {<<>>}
    /\ main_pc = "start"
    /\ exit_status = "running"
    /\ effects = {}
    /\ variant = "none"
    /\ travel_year = FirstYear
    /\ start_month = FirstMonth
    /\ end_month = LastFinderMonth
    /\ departure_days = IF main_script \in {"monitor", "paris"}
                        THEN {2, 3}
                        ELSE {2, 3, 4, 5}
    /\ trip_duration = IF main_script \in {"monitor", "paris"}
                       THEN ParisTripDays
                       ELSE WeekendTripDays
    /\ weekend_trips = Pending
    /\ SamplerIdle
    /\ ExtractIdle
    /\ scanner = "none"
    /\ scan_dates = <<>>
    /\ position = 0
    /\ pc = "idle"
    /\ api_calls_used = 0
    /\ requests_sent = <<>>
    /\ response = [kind |-> "none"]
    /\ search_result = [status |-> "None"]
    /\ printed = <<>>
    /\ results = <<>>
    /\ network \in NetworkPatterns
    /\ AggIdle
    /\ ToolsIdle

\* the check of the credentials: the constructor of the monitor raises
\* ValueError, which main catches; the finders' mains test SERPAPI_KEY
CheckCredentials ==
    /\ main_pc = "start"
    /\ IF RequiredCredentials(main_script) \subseteq environ
       THEN /\ main_pc' = IF main_script \in ConfirmingScripts
                          THEN "prompt"
                          ELSE "scan"
            /\ UNCHANGED <<exit_status, effects>>
       ELSE /\ effects' = effects \cup {"error_message"}
            /\ exit_status' = "failure"
            /\ main_pc' = "exited"
    /\ UNCHANGED <<enumVars, samplerVars, extractVars, scanVars, aggVars,
                   main_script, environ, answer, toolVars>>

\* a prompt that takes every answer beginning with y or Y for a yes
Confirm_AcceptsPrefix ==
    /\ main_pc = "prompt"
    /\ IF answer = EndOfInput
       THEN /\ effects' = effects \cup {"error_message"}
            /\ exit_status' = "failure"
            /\ main_pc' = "exited"
       ELSE IF answer = <<>> \/ lower(answer)[1] # "y"
       THEN /\ effects' = effects \cup {"cancelled_message"}
            /\ exit_status' = "success"
            /\ main_pc' = "exited"
       ELSE /\ main_pc' = "scan"
            /\ UNCHANGED <<exit_status, effects>>
    /\ UNCHANGED <<enumVars, samplerVars, extractVars, scanVars, aggVars,
                   main_script, environ, answer, toolVars>>

\* response = input(...).lower(); if response != 'y': return
Confirm ==
    /\ main_pc = "prompt"
    /\ IF answer = EndOfInput
       THEN /\ effects' = effects \cup {"error_message"}
            /\ exit_status' = "failure"
            /\ main_pc' = "exited"
       ELSE IF lower(answer) # <<"y">>
       THEN /\ effects' = effects \cup {"cancelled_message"}
            /\ exit_status' = "success"
            /\ main_pc' = "exited"
       ELSE /\ main_pc' = "scan"
            /\ UNCHANGED <<exit_status, effects>>
    /\ UNCHANGED <<enumVars, samplerVars, extractVars, scanVars, aggVars,
                   main_script, environ, answer, toolVars>>

\* the scan begins: the dates are enumerated and selected, the counter is 0
StartScan ==
    /\ main_pc = "scan"
    /\ scanner' = ScannerOf(main_script)
    /\ scan_dates' = DatesOf(main_script)
    /\ pc' = "loop"
    /\ main_pc' = "scanning"
    /\ UNCHANGED <<enumVars, samplerVars, extractVars, position,
                   api_calls_used, requests_sent, response, search_result,
                   printed, results, network, aggVars, main_script, environ,
                   answer, exit_status, effects, toolVars>>

\* after the scan: the monitor returns when there are no results, else it
\* analyses, writes its backup file and sends its report; a finder writes its
\* result file when there are results
FinishMain ==
    /\ main_pc = "scanning"
    /\ pc = "done"
    /\ IF main_script = "monitor"
       THEN IF results = <<>>
            THEN UNCHANGED <<aggVars, effects>>
            ELSE /\ analysis' = analyze_results(results, api_calls_used)
                 /\ email_report' = generate_email_report(analysis'.report)
                 /\ effects' = effects \cup {"file", "email"}
       ELSE /\ effects' = IF results # <<>>
                          THEN effects \cup {"file"}
                          ELSE effects
            /\ UNCHANGED aggVars
    /\ exit_status' = "success"
    /\ main_pc' = "exited"
    /\ UNCHANGED <<enumVars, samplerVars, extractVars, scanVars, main_script,
                   environ, answer, toolVars>>

NextMain ==
    \/ CheckCredentials
    \/ Confirm
    \/ StartScan
    \/ NextScan
    \/ FinishMain

SpecMain == InitMain /\ [][NextMain]_vars

-----------------------------------------------------------------------------
(* validate_config and the configuration the monitor is run with           *)

\* validate_config() on a config.env holding every required field: whether it
\* returns True, and the months and dates of its API-usage estimate
validate_config(first_month, last_month, days, trip) ==
    IF ~(1 <= first_month /\ first_month <= 12)
           \/ ~(1 <= last_month /\ last_month <= 12)
    THEN [status |-> "rejected"]
    ELSE IF ~(\A day \in days : 0 <= day /\ day <= 6)
    THEN [status |-> "rejected"]
    ELSE IF ~(1 <= trip /\ trip <= MaxValidTrip)
    THEN [status |-> "rejected"]
    ELSE LET month_count == IF first_month <= last_month
                            THEN last_month - first_month + 1
                            ELSE (12 - first_month + 1) + last_month
         IN  [status |-> "accepted",
              month_count |-> month_count,
              estimated_dates |-> month_count * 4 * Cardinality(days)]

\* START_MONTH and END_MONTH values, valid and not
ConfigMonths == 0..13

\* DEPARTURE_DAYS values, valid and not
ConfigDaySets == DaySets \cup {{2, 7}}

\* TRIP_DURATION_DAYS values, valid and not
ConfigTrips == TripDurations \cup {0, MaxValidTrip + 1}

\* A config.env has been written; the validator and the monitor are about to
\* read it.
InitConfig ==
    /\ variant = "monitor"
    /\ travel_year \in Years
    /\ start_month \in ConfigMonths
    /\ end_month \in ConfigMonths
    /\ departure_days \in ConfigDaySets
    /\ trip_duration \in ConfigTrips
    /\ weekend_trips = Pending
    /\ SamplerIdle
    /\ ExtractIdle
    /\ ScanIdle
    /\ AggIdle
    /\ MainIdle
    /\ ToolsIdle

\* python validate_config.py
ValidateConfig ==
    /\ validation.status = "pending"
    /\ validation' = validate_config(start_month, end_month, departure_days,
                                     trip_duration)
    /\ UNCHANGED <<enumVars, samplerVars, extractVars, scanVars, aggVars,
                   mainVars, now, market_strategy, market_start, market_end,
                   strategic_dates, schedule_dates>>

NextConfig == ValidateConfig \/ CallMonitor

SpecConfig == InitConfig /\ [][NextConfig]_vars

-----------------------------------------------------------------------------
(* Tools: FlightMarketMonitor.get_strategic_dates and                      *)
(* calculate_quota_schedule                                                 *)

\* quota_scheduler: remaining_calls
RemainingCalls == 216
\* quota_scheduler: calls_per_run
CallsPerRun == 26
\* _get_weekly_sampled_dates: dates[:13]
MarketCap == 13

\* quota_scheduler: month_end = datetime(2025, 9, last_day), at midnight
MonthEnd == ymd2ord(2025, 9, days_in_month(2025, 9))

\* a datetime with a time of day is after midnight of the same day
AfterMidnight(dt) == dt.hour > 0 \/ dt.later

\* FlightMarketMonitor._get_next_weekend: the next Friday, or the one after
\* on a Friday afternoon, with the Tuesday after it
get_next_weekend(today) ==
    LET until == (4 - weekday(today.date)) % 7
        days_until_friday == IF until = 0 /\ today.hour > 12 THEN 7 ELSE until
        friday == today.date + days_until_friday
        tuesday == friday + 4
    IN  <<<<strftime(friday), strftime(tuesday)>>>>

\* FlightMarketMonitor._get_weekly_sampled_dates: week_count counts the
\* Wed/Thu/Fri/Sat days met, and the days met at an even count are kept, the
\* first 13 of them
get_weekly_sampled(first, last) ==
    LET current == strptime(first)
        end == strptime(last)
        met == SelectSeq([k \in 1..(IF end >= current
                                    THEN end - current + 1
                                    ELSE 0) |-> current + k - 1],
                         LAMBDA day : weekday(day) \in {2, 3, 4, 5})
        dates == [k \in 1..((Len(met) + 1) \div 2) |->
                     <<strftime(met[2 * k - 1]), strftime(met[2 * k - 1] + 4)>>]
    IN  SubSeq(dates, 1, Min(MarketCap, Len(dates)))

\* FlightMarketMonitor.get_strategic_dates: _get_all_weekend_dates is not
\* defined in the class, and a strategy not listed falls through
get_strategic_dates(name, first, last, today) ==
    IF name = "daily_pulse"
    THEN [status |-> "ok", dates |-> get_next_weekend(today)]
    ELSE IF name = "weekly_overview"
    THEN [status |-> "ok", dates |-> get_weekly_sampled(first, last)]
    ELSE IF name = "monthly_deep_dive"
    THEN [status |-> "AttributeError"]
    ELSE [status |-> "None"]

\* the for loop of calculate_quota_schedule from run run_num on
RECURSIVE ScheduleLoop(_, _, _, _, _)
ScheduleLoop(run_num, runs, current, gap, today) ==
    IF run_num >= runs
    THEN <<>>
    ELSE LET next == current + gap
             past_end == next > MonthEnd
                             \/ (next = MonthEnd /\ AfterMidnight(today))
         IN  <<strftime(current)>>
                 \o (IF past_end
                     THEN <<>>
                     ELSE ScheduleLoop(run_num + 1, runs, next, gap, today))

\* calculate_quota_schedule(): the schedule_dates it returns
calculate_quota_schedule(today) ==
    LET whole_days == IF AfterMidnight(today)
                      THEN MonthEnd - today.date - 1
                      ELSE MonthEnd - today.date
        days_remaining == whole_days + 1
        max_possible_runs == RemainingCalls \div CallsPerRun
    IN  IF max_possible_runs > 0
        THEN LET days_between_runs == days_remaining \div max_possible_runs
             IN  [status |-> "ok",
                  dates |-> ScheduleLoop(0, max_possible_runs, today.date,
                                         days_between_runs, today)]
        ELSE [status |-> "ok", dates |-> <<>>]

\* the days datetime.now() is read on: the end of September 2025 and the
\* days after it, a day long before and a day long after
NowDates ==
    (ymd2ord(2025, 9, 20) .. ymd2ord(2025, 10, 3))
    \cup {ymd2ord(2025, 8, 1), ymd2ord(2026, 11, 3)}

\* the times of day: midnight, the morning, noon, the afternoon
NowTimes ==
    { [hour |-> h, later |-> l] : h \in {0, 9, 12, 13}, l \in BOOLEAN }

MarketStrategies ==
    {"daily_pulse", "weekly_overview", "monthly_deep_dive", "hourly"}

\* the start_date and end_date arguments
MarketDates ==
    {<<FirstYear, 4, 1>>, <<FirstYear, 4, 4>>, <<FirstYear, 4, 30>>,
     <<FirstYear, 6, 30>>}

\* One of the tools is about to be called, at some time.
InitTools ==
    /\ EnumIdle
    /\ SamplerIdle
    /\ ExtractIdle
    /\ ScanIdle
    /\ AggIdle
    /\ MainIdle
    /\ validation = [status |-> "pending"]
    /\ \E day \in NowDates, time \in NowTimes :
           now = [date |-> day, hour |-> time.hour, later |-> time.later]
    /\ market_strategy \in MarketStrategies
    /\ market_start \in MarketDates
    /\ market_end \in MarketDates
    /\ strategic_dates = [status |-> "pending"]
    /\ schedule_dates = [status |-> "pending"]

\* monitor.get_strategic_dates(strategy, start_date, end_date)
GetStrategicDates ==
    /\ strategic_dates.status = "pending"
    /\ strategic_dates' = get_strategic_dates(market_strategy, market_start,
                                              market_end, now)
    /\ UNCHANGED <<enumVars, samplerVars, extractVars, scanVars, aggVars,
                   mainVars, validation, now, market_strategy, market_start,
                   market_end, schedule_dates>>

\* python quota_scheduler.py
CalculateQuotaSchedule ==
    /\ schedule_dates.status = "pending"
    /\ schedule_dates' = calculate_quota_schedule(now)
    /\ UNCHANGED <<enumVars, samplerVars, extractVars, scanVars, aggVars,
                   mainVars, validation, now, market_strategy, market_start,
                   market_end, strategic_dates>>

NextTools == GetStrategicDates \/ CalculateQuotaSchedule

SpecTools == InitTools /\ [][NextTools]_vars

-----------------------------------------------------------------------------
(* Claims about the enumerator, checked under SpecEnum *)

Returned == weekend_trips.status # "pending"

ReturnedOk == weekend_trips.status = "ok"

Trips == weekend_trips.trips

\* C1: every pair the enumerator returns departs on an allowed weekday,
\* returns exactly trip_length days after its departure, and has a return
\* date whose month number is at most end_month.
C1_PairsWellFormed ==
    ReturnedOk =>
        \A i \in 1..Len(Trips) :
            LET departure == Trips[i][1]
                return_date == Trips[i][2]
            IN  /\ weekday(strptime(departure)) \in departure_days
                /\ strptime(return_date) = strptime(departure) + trip_duration
                /\ return_date[2] <= end_month

\* C1 witness: a call returned pairs, one of them returning in a later month
\* than it departs.
C1_Witness ==
    /\ ReturnedOk
    /\ \E i \in 1..Len(Trips) : Trips[i][2][2] > Trips[i][1][2]

\* The days from the first day of start_month through the last day of
\* end_month that the enumerator is to keep.
ExpectedDepartures ==
    LET first == ymd2ord(travel_year, start_month, 1)
        last == ymd2ord(travel_year, end_month,
                        days_in_month(travel_year, end_month))
    IN  {d \in first..last :
            /\ weekday(d) \in departure_days
            /\ month_of(d + trip_duration) <= end_month}

\* The returned list is exactly ExpectedDepartures in ascending date order,
\* each day paired with its return date.
ExactlyExpected ==
    /\ ReturnedOk
    /\ {strptime(Trips[i][1]) : i \in 1..Len(Trips)} = ExpectedDepartures
    /\ \A i \in 1..Len(Trips) :
           Trips[i][2] = strftime(strptime(Trips[i][1]) + trip_duration)
    /\ \A i \in 1..(Len(Trips) - 1) :
           strptime(Trips[i][1]) < strptime(Trips[i + 1][1])

\* C2: for every month range 1 <= start_month <= end_month <= 12 the
\* enumerator returns without raising, and returns exactly the allowed days
\* of the range whose return month is at most end_month, ascending, none
\* missing, added or repeated.
C2_ExactForEveryRange ==
    (Returned /\ start_month <= end_month) => ExactlyExpected

\* The part of C2 the code satisfies: every range ending before December.
C2_ExactBeforeDecember ==
    (Returned /\ start_month <= end_month /\ end_month < 12) => ExactlyExpected

\* C3: for every positive trip length the monitor accepts, both dates of
\* every enumerated pair lie in the travel year with a month in
\* [start_month, end_month].
C3_BothDatesInRange ==
    (variant = "monitor" /\ ReturnedOk /\ trip_duration > 0) =>
        \A i \in 1..Len(Trips) :
            \A k \in 1..2 :
                /\ Trips[i][k][1] = travel_year
                /\ Trips[i][k][2] \in start_month..end_month

-----------------------------------------------------------------------------
(* Claims about the sampler, checked under SpecSampler *)

SmartOk == smart_selected.status = "ok"

DistributedOk == distributed_selected.status = "ok"

SmartTarget == StrategyDates(strategy)

\* how many pairs of dates depart in month
CountIn(dates, month) ==
    Cardinality({k \in 1..Len(dates) : MonthKey(dates[k]) = month})

\* C4: the sampler returns at most target_count pairs.
C4_AtMostTarget ==
    /\ SmartOk => Len(smart_selected.dates) <= SmartTarget
    /\ DistributedOk => Len(distributed_selected.dates) <= max_dates

\* C4 witness: both samplers down-sampled a longer list to exactly the target.
C4_Witness ==
    /\ SmartOk
    /\ DistributedOk
    /\ Len(all_dates) > SmartTarget
    /\ Len(all_dates) > max_dates
    /\ max_dates > 0
    /\ Len(smart_selected.dates) = SmartTarget
    /\ Len(distributed_selected.dates) = max_dates

\* C5: the sampler returns at least min(target_count, len(all_pairs)) pairs,
\* also when a month holds fewer pairs than its slots while another holds more.
C5_AtLeastMin ==
    /\ SmartOk =>
           Len(smart_selected.dates) >= Min(SmartTarget, Len(all_dates))
    /\ DistributedOk =>
           Len(distributed_selected.dates) >= Min(max_dates, Len(all_dates))

\* C6: with target_count >= len(all_pairs) the sampler returns all_pairs
\* unchanged, and returns the same list again when applied to its output.
C6_NoOpTarget ==
    /\ (smart_selected.status # "pending" /\ SmartTarget >= Len(all_dates)) =>
           /\ smart_selected = [status |-> "ok", dates |-> all_dates]
           /\ select_smart_dates(smart_selected.dates, strategy) = smart_selected
    /\ (distributed_selected.status # "pending" /\ max_dates >= Len(all_dates)) =>
           /\ distributed_selected = [status |-> "ok", dates |-> all_dates]
           /\ select_distributed_dates(distributed_selected.dates, max_dates)
                  = distributed_selected

\* C6 witness: both samplers were called with a target equal to the length of
\* a list spread unevenly over two or more months.
C6_Witness ==
    /\ SmartOk
    /\ DistributedOk
    /\ SmartTarget >= Len(all_dates)
    /\ max_dates = Len(all_dates)
    /\ Len(MonthsOf(all_dates)) >= 2
    /\ \E a, b \in 1..Len(MonthsOf(all_dates)) :
           CountIn(all_dates, MonthsOf(all_dates)[a])
               > CountIn(all_dates, MonthsOf(all_dates)[b]) + 1

\* base + 1 for the first extra months, base for the rest
Slots(i, target, month_count) ==
    LET base == target \div month_count
        extra == target % month_count
    IN  IF i < extra THEN base + 1 ELSE base

RECURSIVE SumNumFromMonth(_, _, _)
SumNumFromMonth(i, target, month_count) ==
    IF i >= month_count
    THEN 0
    ELSE NumFromMonth(i, target, month_count)
         + SumNumFromMonth(i + 1, target, month_count)

\* the allocation claim for one returned selection
AllocatedPerMonth(selected, target) ==
    LET months == MonthsOf(all_dates)
    IN  /\ \A i \in 0..(Len(months) - 1) :
               LET slots == Slots(i, target, Len(months))
               IN  CountIn(all_dates, months[i + 1]) >= slots =>
                       CountIn(selected, months[i + 1]) = slots
        /\ SumNumFromMonth(0, target, Len(months)) = target

\* C7: when len(all_pairs) > target_count, the sampler takes base + 1 pairs
\* from each of the first extra months (chronologically) and base from the
\* others, whenever the month holds that many; the slot counts sum to
\* target_count.
C7_SlotsPerMonth ==
    /\ (SmartOk /\ Len(all_dates) > SmartTarget) =>
           AllocatedPerMonth(smart_selected.dates, SmartTarget)
    /\ (DistributedOk /\ Len(all_dates) > max_dates) =>
           AllocatedPerMonth(distributed_selected.dates, max_dates)

\* C7 witness: a down-sampling over three months with a remainder, every month
\* holding its slots.
C7_Witness ==
    /\ DistributedOk
    /\ Len(all_dates) > max_dates
    /\ Len(MonthsOf(all_dates)) = 3
    /\ max_dates % 3 = 2
    /\ \A i \in 0..2 :
           CountIn(all_dates, MonthsOf(all_dates)[i + 1]) > Slots(i, max_dates, 3)
    /\ SmartOk
    /\ Len(all_dates) > SmartTarget

\* the j-th pair selected from every month holding more pairs than its slots
\* is the pair at index floor(j * len(month_pairs) / n) of the month's list
FloorIndexed(selected, target) ==
    LET months == MonthsOf(all_dates)
    IN  \A i \in 0..(Len(months) - 1) :
            LET n == Slots(i, target, Len(months))
                month_pairs == MonthDates(all_dates, months[i + 1])
                picked == MonthDates(selected, months[i + 1])
            IN  Len(month_pairs) > n =>
                    /\ Len(picked) = n
                    /\ \A j \in 0..(n - 1) :
                           picked[j + 1]
                               = month_pairs[((j * Len(month_pairs)) \div n) + 1]

\* C8, for select_smart_dates alone.
C8_SmartFloorIndexed ==
    (SmartOk /\ Len(all_dates) > SmartTarget) =>
        FloorIndexed(smart_selected.dates, SmartTarget)

\* C8: in every sampler variant the j-th pair selected from a month holding
\* more pairs than its allocation n is the pair at index
\* floor(j * len(month_pairs) / n); so both variants return the same list for
\* the same input and target.
C8_SameFloorIndexing ==
    /\ C8_SmartFloorIndexed
    /\ (DistributedOk /\ Len(all_dates) > max_dates) =>
           FloorIndexed(distributed_selected.dates, max_dates)
    /\ (smart_selected.status # "pending"
            /\ distributed_selected.status # "pending"
            /\ SmartTarget = max_dates) =>
           smart_selected = distributed_selected

\* C9: the Paris finder's enumeration of April-June 2026 is exactly every
\* Wednesday and Thursday of the range whose return, 4 days later, is in June
\* or earlier; the weekly strategy (13) returns exactly 13 of them, and the
\* numbers taken from April, May and June differ by at most one.
C9_ParisWeekly ==
    (variant = "paris" /\ travel_year = FirstYear /\ start_month = FirstMonth
        /\ end_month = LastFinderMonth) =>
        /\ ExactlyExpected
        /\ departure_days = {2, 3}
        /\ trip_duration = 4
        /\ Len(all_dates) = 26
        /\ all_dates[1] = <<(<<2026, 4, 1>>), (<<2026, 4, 5>>)>>
        /\ all_dates[26] = <<(<<2026, 6, 25>>), (<<2026, 6, 29>>)>>
        /\ strategy = "weekly" =>
               /\ SmartOk
               /\ Len(smart_selected.dates) = 13
               /\ \A a, b \in {(<<2026, 4>>), (<<2026, 5>>), (<<2026, 6>>)} :
                      CountIn(smart_selected.dates, a)
                          <= CountIn(smart_selected.dates, b) + 1

\* C9 witness: the weekly strategy has run on the Paris finder's list.
C9_Witness ==
    /\ variant = "paris"
    /\ travel_year = FirstYear
    /\ start_month = FirstMonth
    /\ end_month = LastFinderMonth
    /\ strategy = "weekly"
    /\ SmartOk
    /\ Len(smart_selected.dates) = 13

-----------------------------------------------------------------------------
(* Claims about the extractor, checked under SpecExtract *)

Extracted == flight_info.status = "ok"

BestFlights == Get(search_data, "best_flights", <<>>)

OtherFlights == Get(search_data, "other_flights", <<>>)

\* no priced itinerary of flights is cheaper than the extracted record
NoneCheaper(flights) ==
    \A k \in 1..Len(flights) :
        "price" \in DOMAIN flights[k] =>
            flights[k].price >= flight_info.record.price

\* C10 as stated: no itinerary of the response, in best_flights or in
\* other_flights, has a price lower than the extracted record's.
C10_CheapestOfResponse ==
    Extracted => (NoneCheaper(BestFlights) /\ NoneCheaper(OtherFlights))

\* C10 as amended: no itinerary of the list the extractor uses (best_flights
\* when it is non-empty, other_flights otherwise) has a price lower than the
\* extracted record's.
C10_CheapestOfUsedList ==
    Extracted =>
        IF BestFlights # <<>>
        THEN NoneCheaper(BestFlights)
        ELSE NoneCheaper(OtherFlights)

\* C10 witness: a record was extracted from a best_flights list of two priced
\* itineraries, the second one the cheaper.
C10_Witness ==
    /\ Extracted
    /\ Len(BestFlights) = 2
    /\ "price" \in DOMAIN BestFlights[1]
    /\ "price" \in DOMAIN BestFlights[2]
    /\ BestFlights[2].price < BestFlights[1].price
    /\ flight_info.record.price = BestFlights[2].price

\* the list the extractor uses: best_flights when it is present and
\* non-empty, other_flights otherwise
UsedList == IF BestFlights # <<>> THEN BestFlights ELSE OtherFlights

Priced(it) == "price" \in DOMAIN it

\* the extracted record was read off the itinerary it
SelectedIs(it) ==
    LET record == flight_info.record
    IN  /\ record.price = Get(it, "price", 0)
        /\ record.duration_minutes = Get(it, "total_duration", 0)
        /\ record.airline = AirlineOf(it)
        /\ record.direct_flight = DirectFlight(it)
        /\ record.layovers = LayoversOf(it)
        /\ record.carbon_kg = CarbonKgThousandths(it)
        /\ ("search_data" \in DOMAIN record => record.search_data = it)

\* C12: the extracted record is read off an itinerary of the used list whose
\* price is the minimum of the list; no itinerary before it in the list has
\* that price; and it has a price whenever some itinerary of the list has one.
C12_FirstMinimumSelected ==
    Extracted =>
        \E i \in 1..Len(UsedList) :
            /\ SelectedIs(UsedList[i])
            /\ \A j \in 1..Len(UsedList) :
                   Priced(UsedList[j]) =>
                       /\ Priced(UsedList[i])
                       /\ UsedList[i].price <= UsedList[j].price
            /\ \A h \in 1..(i - 1) :
                   (Priced(UsedList[i]) /\ Priced(UsedList[h])) =>
                       UsedList[h].price > UsedList[i].price

\* C12 witness: a record was extracted from a used list of two different
\* itineraries sharing the minimum price, and it is the first of them.
C12_Witness ==
    /\ Extracted
    /\ Len(UsedList) = 2
    /\ Priced(UsedList[1])
    /\ Priced(UsedList[2])
    /\ UsedList[1].price = UsedList[2].price
    /\ UsedList[1] # UsedList[2]
    /\ SelectedIs(UsedList[1])
    /\ ~SelectedIs(UsedList[2])

\* C12 second witness: the first itinerary of the used list has no price, the
\* second has one, and the record is read off the second.
C12_UnpricedSkipped ==
    /\ Extracted
    /\ Len(UsedList) = 2
    /\ ~Priced(UsedList[1])
    /\ Priced(UsedList[2])
    /\ SelectedIs(UsedList[2])
    /\ ~SelectedIs(UsedList[1])

-----------------------------------------------------------------------------
(* Claims about the extracted fields, checked under SpecFields *)

\* the itinerary the extractor selects: the first of the used list when the
\* list holds one itinerary
OnlyItinerary == UsedList[1]

\* the number of flight segments of an itinerary
SegmentCount(it) == IF "flights" \in DOMAIN it THEN Len(it.flights) ELSE 0

\* C13: direct_flight of the extracted record is true if and only if the
\* selected itinerary has exactly one flight segment, whatever its layover
\* list holds.
C13_DirectIffOneSegment ==
    (Extracted /\ Len(UsedList) = 1) =>
        (flight_info.record.direct_flight <=> SegmentCount(OnlyItinerary) = 1)

\* C13 witness: a record with direct_flight true was extracted from an
\* itinerary with one segment and a non-empty layover list.
C13_Witness ==
    /\ Extracted
    /\ Len(UsedList) = 1
    /\ SegmentCount(OnlyItinerary) = 1
    /\ "layovers" \in DOMAIN OnlyItinerary
    /\ Len(OnlyItinerary.layovers) > 0
    /\ flight_info.record.direct_flight

\* C13 second witness: direct_flight is false for an itinerary with two
\* segments and an empty layover list.
C13_TwoSegments ==
    /\ Extracted
    /\ Len(UsedList) = 1
    /\ SegmentCount(OnlyItinerary) = 2
    /\ "layovers" \in DOMAIN OnlyItinerary
    /\ OnlyItinerary.layovers = <<>>
    /\ ~flight_info.record.direct_flight

\* C13 third witness: direct_flight is false for an itinerary without the
\* flights key.
C13_NoSegments ==
    /\ Extracted
    /\ Len(UsedList) = 1
    /\ "flights" \notin DOMAIN OnlyItinerary
    /\ ~flight_info.record.direct_flight

\* the value the record shows for a key of the itinerary: the key's value, or
\* the default when the key is absent
ValueOr(dict, key, default) ==
    IF key \in DOMAIN dict THEN dict[key] ELSE default

\* C14: for an itinerary missing any subset of its keys, every extractor
\* returns a record (it raises nothing), whose price and duration are 0 when
\* absent, whose airline is 'Unknown' when there is no first segment or the
\* segment has no airline, whose layover codes are 'Unknown' for the layovers
\* without an id, and whose carbon_kg is 0 when the emissions or their
\* this_flight value are absent.
C14_MissingKeysDefault ==
    (flight_info.status # "pending" /\ Len(UsedList) = 1) =>
        LET it == OnlyItinerary
            record == flight_info.record
            segments == ValueOr(it, "flights", <<>>)
            stops == ValueOr(it, "layovers", <<>>)
            emissions == ValueOr(it, "carbon_emissions", << >>)
        IN  /\ Extracted
            /\ record.price = ValueOr(it, "price", 0)
            /\ record.duration_minutes = ValueOr(it, "total_duration", 0)
            /\ record.airline =
                   IF Len(segments) > 0
                   THEN ValueOr(segments[1], "airline", "Unknown")
                   ELSE "Unknown"
            /\ Len(record.layovers) = Len(stops)
            /\ \A k \in 1..Len(stops) :
                   record.layovers[k] = ValueOr(stops[k], "id", "Unknown")
            /\ record.carbon_kg = ValueOr(emissions, "this_flight", 0)

\* C14 witness: a record was extracted from an itinerary holding none of its
\* keys, and it shows every default.
C14_Witness ==
    /\ Extracted
    /\ Len(UsedList) = 1
    /\ DOMAIN OnlyItinerary = {}
    /\ flight_info.record.price = 0
    /\ flight_info.record.duration_minutes = 0
    /\ flight_info.record.airline = "Unknown"
    /\ flight_info.record.layovers = <<>>
    /\ flight_info.record.carbon_kg = 0

\* C14 second witness: every key is present and the inner keys are missing: a
\* first segment without airline, a layover without id, emissions without
\* this_flight.
C14_InnerKeysMissing ==
    /\ Extracted
    /\ Len(UsedList) = 1
    /\ DOMAIN OnlyItinerary =
           {"price", "total_duration", "flights", "layovers", "carbon_emissions"}
    /\ Len(OnlyItinerary.flights) = 2
    /\ DOMAIN OnlyItinerary.flights[1] = {}
    /\ Len(OnlyItinerary.layovers) = 2
    /\ DOMAIN OnlyItinerary.layovers[2] = {}
    /\ DOMAIN OnlyItinerary.carbon_emissions = {}
    /\ flight_info.record.airline = "Unknown"
    /\ flight_info.record.layovers = <<"FRA", "Unknown">>
    /\ flight_info.record.carbon_kg = 0

-----------------------------------------------------------------------------
(* Claims about the aggregator, checked under SpecAggregate *)

Analyzed == analysis.status = "ok"

Report == analysis.report

InputPrices == [i \in 1..Len(results) |-> results[i].price]

\* the number of elements of s satisfying Test
CountOf(s, Test(_)) == Cardinality({i \in 1..Len(s) : Test(s[i])})

\* avg is the floor of the sum of s divided by its length
IsFloorAverage(avg, s) ==
    /\ avg * Len(s) <= SumSeq(s)
    /\ SumSeq(s) < (avg + 1) * Len(s)

\* m is the element at 0-based index Len(s) // 2 of s sorted ascending: at
\* most Len(s) // 2 elements are below m and more than Len(s) // 2 are not
\* above it
IsUpperMedian(m, s) ==
    /\ \E i \in 1..Len(s) : s[i] = m
    /\ CountOf(s, LAMBDA x : x < m) <= Len(s) \div 2
    /\ CountOf(s, LAMBDA x : x <= m) > Len(s) \div 2

\* C15: for every non-empty list of records, price_avg is the floor of the
\* sum of the prices divided by their count and price_median is the element
\* at index count // 2 of the sorted prices; prices [100, 200, 300, 400] give
\* 250 and 300.
C15_FloorAverageUpperMedian ==
    (Analyzed /\ results # <<>>) =>
        /\ IsFloorAverage(Report.price_avg, InputPrices)
        /\ IsUpperMedian(Report.price_median, InputPrices)
        /\ InputPrices = <<100, 200, 300, 400>> =>
               (Report.price_avg = 250 /\ Report.price_median = 300)

\* C15 witness: the aggregator was called on prices [100, 200, 300, 400] and
\* reports average 250 and median 300.
C15_Witness ==
    /\ Analyzed
    /\ InputPrices = <<100, 200, 300, 400>>
    /\ Report.price_avg = 250
    /\ Report.price_median = 300

\* C15 second witness: the sum is not a multiple of the count and the input
\* is not sorted: prices [400, 100, 100] give floor(600 / 3) = 200 and median
\* 100; prices [200, 100, 100] give floor(400 / 3) = 133.
C15_Rounding ==
    /\ Analyzed
    /\ InputPrices = <<200, 100, 100>>
    /\ Report.price_avg = 133
    /\ Report.price_median = 100

BestDealsList == Report.best_deals

\* the list holds the lowest-priced records of the input, as many as
\* TopDeals allows, in ascending price order
HoldsLowestAscending(best) ==
    /\ Len(best) = Min(TopDeals, Len(results))
    /\ \A i \in 1..Len(best) : \E k \in 1..Len(results) : results[k] = best[i]
    /\ \A i, j \in 1..Len(best) : i < j => best[i].price <= best[j].price
    /\ \A i \in 1..Len(best) :
           \A k \in 1..Len(results) :
               (\A j \in 1..Len(best) : best[j] # results[k]) =>
                   results[k].price >= best[i].price

\* the input is in ascending price order, as run_complete_scan leaves it
SortedByPrice(records) ==
    \A i, j \in 1..Len(records) :
        i < j => records[i].price <= records[j].price

LabelsOf(Label(_)) == {Label(results[i]) : i \in 1..Len(results)}

\* the prices of the records carrying a label
GroupPrices(Label(_), label) ==
    PricesOf(SelectSeq(results, LAMBDA r : Label(r) = label))

MonthLabel(r) == r.month

DayLabel(r) == r.departure_day

\* the entry holds the group's count and floor-averaged price
HasCountAndAverage(entry, prices) ==
    /\ entry.count = Len(prices)
    /\ IsFloorAverage(entry.avg_price, prices)

\* the entry holds the group's minimum price
HasMinimum(entry, prices) ==
    /\ "min_price" \in DOMAIN entry
    /\ \E i \in 1..Len(prices) : prices[i] = entry.min_price
    /\ \A i \in 1..Len(prices) : prices[i] >= entry.min_price

\* the counts of the entries of a breakdown sum to total_options
CountsSumToTotal(breakdown, keys) ==
    SumSeq([k \in 1..Len(keys) |-> breakdown[keys[k]].count])
        = Report.total_options

MonthBreakdownHolds ==
    /\ DOMAIN Report.by_month = LabelsOf(MonthLabel)
    /\ \A m \in LabelsOf(MonthLabel) :
           /\ HasCountAndAverage(Report.by_month[m], GroupPrices(MonthLabel, m))
           /\ HasMinimum(Report.by_month[m], GroupPrices(MonthLabel, m))
    /\ CountsSumToTotal(Report.by_month, Report.by_month_keys)

DayBreakdownCountsHold ==
    /\ DOMAIN Report.by_day = LabelsOf(DayLabel)
    /\ \A d \in LabelsOf(DayLabel) :
           HasCountAndAverage(Report.by_day[d], GroupPrices(DayLabel, d))
    /\ CountsSumToTotal(Report.by_day, Report.by_day_keys)

\* C17 as stated: both the per-month and the per-weekday breakdown hold, for
\* each label present, the group's count, minimum price and floor-averaged
\* price, and the counts sum to total_options.
C17_BothBreakdownsComplete ==
    (Analyzed /\ results # <<>>) =>
        /\ MonthBreakdownHolds
        /\ DayBreakdownCountsHold
        /\ \A d \in LabelsOf(DayLabel) :
               HasMinimum(Report.by_day[d], GroupPrices(DayLabel, d))

\* C17 as amended: the per-month breakdown holds the group's count, minimum
\* price and floor-averaged price, the per-weekday breakdown holds the group's
\* count and floor-averaged price, and the counts of each sum to
\* total_options.
C17_BreakdownsAsComputed ==
    (Analyzed /\ results # <<>>) =>
        /\ MonthBreakdownHolds
        /\ DayBreakdownCountsHold

\* C17 witness: the aggregator was called on records of two months and two
\* weekdays, the first month's prices not summing to a multiple of their
\* count.
C17_Witness ==
    /\ Analyzed
    /\ Cardinality(LabelsOf(MonthLabel)) = 2
    /\ Cardinality(LabelsOf(DayLabel)) = 2
    /\ Report.by_month["April"].count = 4
    /\ Report.by_month["April"].min_price = 100
    /\ Report.by_month["April"].avg_price = 175
    /\ GroupPrices(MonthLabel, "April") = <<100, 100, 200, 300>>
    /\ Report.by_day["Thursday"].count = 3

\* C18: called on an empty list the aggregator returns the empty report, and
\* the renderer applied to it raises nothing and reads every statistic as 0,
\* no deal, no month.
C18_EmptyReportReadsZero ==
    results = <<>> =>
        /\ analysis.status \in {"pending", "ok"}
        /\ Analyzed => DOMAIN Report = {}
        /\ email_report.status \in {"pending", "ok"}
        /\ email_report.status = "ok" =>
               /\ email_report.stats.price_min = 0
               /\ email_report.stats.price_avg = 0
               /\ email_report.stats.price_max = 0
               /\ email_report.stats.spread = 0
               /\ email_report.stats.total_options = 0
               /\ email_report.stats.api_calls_used = 0
               /\ email_report.stats.direct_flights = 0
               /\ email_report.stats.best_deals = <<>>
               /\ email_report.stats.months = <<>>
               /\ email_report.stats.best_month = "N/A"

\* C18 witness: the empty list was aggregated and the report rendered.
C18_Witness ==
    /\ results = <<>>
    /\ Analyzed
    /\ DOMAIN Report = {}
    /\ email_report.status = "ok"
    /\ email_report.stats.total_options = 0

-----------------------------------------------------------------------------
(* Claims about the scan loop, checked under SpecScan and SpecScanLive *)

\* a request has just been processed and the next one is not yet issued
JustProcessed == pc = "loop" /\ position >= 1

ReceivedBest == Get(search_result.data, "best_flights", <<>>)

ReceivedOther == Get(search_result.data, "other_flights", <<>>)

\* the processed request gave a record at the lowest price of the list, and
\* the record is the last one added to the results
RecordedCheapestOf(flights) ==
    /\ flight_info.status = "ok"
    /\ flight_info.record.price = MinOf(PricesOf(flights))
    /\ printed[position] = "found"
    /\ results # <<>>
    /\ results[Len(results)] = flight_info.record

\* C11: the extractor uses best_flights; when that list is empty or absent it
\* uses other_flights and still returns that list's cheapest itinerary; when
\* both are empty or absent it returns None, and the scan adds no record for
\* the date pair: the results hold one record per request that found one.
C11_FallbackThenAbsent ==
    /\ Len(results) = CountOf(printed, LAMBDA line : line = "found")
    /\ (JustProcessed /\ Truthy(search_result)) =>
           IF ReceivedBest # <<>>
           THEN RecordedCheapestOf(ReceivedBest)
           ELSE IF ReceivedOther # <<>>
           THEN RecordedCheapestOf(ReceivedOther)
           ELSE /\ flight_info.status = "None"
                /\ printed[position] = "No flights found"

\* C11 witness: the first request was answered with an empty best_flights and
\* an other_flights list of prices 300 and 150, and the scan holds one record,
\* at price 150.
C11_Witness ==
    /\ JustProcessed
    /\ position = 1
    /\ Truthy(search_result)
    /\ ReceivedBest = <<>>
    /\ PricesOf(ReceivedOther) = <<300, 150>>
    /\ Len(results) = 1
    /\ results[1].price = 150

\* C11 second witness: the second request was answered with neither list, the
\* extractor returned None and the scan still holds the first request's
\* record only.
C11_NoRecordAdded ==
    /\ JustProcessed
    /\ position = 2
    /\ Truthy(search_result)
    /\ DOMAIN search_result.data = {"search_metadata"}
    /\ flight_info.status = "None"
    /\ printed = <<"found", "No flights found">>
    /\ Len(results) = 1

\* the requests issued so far are those of the first positions of the loop,
\* each once and in list order; at most one request is under way, and only
\* when every earlier one has been processed; a finished run has made every
\* request
ScanInOrder ==
    /\ Len(requests_sent) <= TotalRequests
    /\ requests_sent = [k \in 1..Len(requests_sent) |-> RequestAt(k - 1)]
    /\ Len(requests_sent) =
           position + (IF pc \in {"waiting", "received"} THEN 1 ELSE 0)
    /\ Len(printed) = position
    /\ pc = "done" => position = TotalRequests

\* C19: whatever the outcomes of the earlier requests, every selected date
\* pair is requested exactly once, in list order and one at a time, nothing is
\* retried, and the scan terminates after the last pair.
C19_EveryPairOnceThenDone == []ScanInOrder /\ <>(pc = "done")

\* C19 witness: a run of three requests has finished although its first
\* request failed and its second found nothing.
C19_Witness ==
    /\ pc = "done"
    /\ Len(requests_sent) = 3
    /\ printed = <<"Search failed", "No flights found", "found">>
    /\ Len(results) = 1

\* C20: whenever no request is under way, api_calls_used equals the number of
\* requests attempted so far.
C20_CounterCountsAttempts ==
    pc \in {"loop", "done"} => api_calls_used = Len(requests_sent)

-----------------------------------------------------------------------------
(* Claims about the error tiers of the scan, checked under SpecScan *)

\* the request ended in a 200 response whose body is an object without an
\* error field
UsableResponse ==
    /\ response.kind = "http"
    /\ response.status_code = 200
    /\ response.parses
    /\ "error" \notin DOMAIN response.data

\* the itinerary list the extractor uses for the response: best_flights, or
\* other_flights when best_flights is missing or empty
ResponseItineraries ==
    LET best == Get(response.data, "best_flights", <<>>)
    IN  IF best # <<>> THEN best ELSE Get(response.data, "other_flights", <<>>)

\* C21: a date pair whose request ends in a network exception, a non-200
\* status, malformed JSON or a 200 response with an error field adds no
\* record and the scan goes on to the next pair; a date pair adds exactly one
\* record if and only if the response is a 200 without error field and the
\* itinerary list the extractor uses is not empty.
C21_OneRecordIffUsable ==
    [][ProcessResult =>
          /\ pc' = "loop"
          /\ position' = position + 1
          /\ IF UsableResponse /\ ResponseItineraries # <<>>
             THEN /\ Len(results') = Len(results) + 1
                  /\ SubSeq(results', 1, Len(results)) = results
             ELSE results' = results]_vars

\* the second pair of a scan has just been processed: its response was a 200
\* whose object holds an error field next to an itinerary, it added nothing
\* to the record of the first pair, and the scan is back in its loop
C21_Witness ==
    /\ pc = "loop"
    /\ position = 2
    /\ printed = <<"found", "Search failed">>
    /\ Len(results) = 1
    /\ response.kind = "http"
    /\ response.status_code = 200
    /\ response.parses
    /\ DOMAIN response.data = {"error", "best_flights"}
    /\ api_calls_used = 2

-----------------------------------------------------------------------------
(* Claims about the start of the scripts, checked under SpecMain *)

\* a credential the script requires is not set: one of the four for the
\* monitor, the API key for a finder
CredentialMissing ==
    IF main_script = "monitor"
    THEN \E name \in {"SERPAPI_KEY", "EMAIL_USER", "EMAIL_PASS", "EMAIL_TO"} :
             name \notin environ
    ELSE "SERPAPI_KEY" \notin environ

\* nothing has gone out: no request, no file, no email
NothingDone ==
    /\ requests_sent = <<>>
    /\ api_calls_used = 0
    /\ "file" \notin effects
    /\ "email" \notin effects

\* C22: when a required credential is missing at startup (SERPAPI_KEY,
\* EMAIL_USER, EMAIL_PASS or EMAIL_TO for the monitor, SERPAPI_KEY for the
\* finder scripts) the process reports the problem and exits with a failure
\* status, and it never issues a request, writes a file or sends an email.
C22_MissingCredentialStops ==
    CredentialMissing =>
        /\ NothingDone
        /\ main_pc \in {"start", "exited"}
        /\ main_pc = "exited" =>
               /\ exit_status = "failure"
               /\ "error_message" \in effects

\* the monitor was started with its API key but without EMAIL_TO and has
\* exited
C22_Witness ==
    /\ main_script = "monitor"
    /\ environ = {"SERPAPI_KEY", "EMAIL_USER", "EMAIL_PASS"}
    /\ main_pc = "exited"
    /\ exit_status = "failure"

\* the answers that lower() turns into 'y'
YesAnswers == {<<"y">>, <<"Y">>}

\* C23: in the large-quota scripts (complete_coverage_finder,
\* weekly_flight_finder) no request is issued before the user has answered
\* the confirmation prompt, and when the answer is anything other than 'y' in
\* either case the run ends with no request, the counter at 0 and no result
\* file.
C23_NoRequestWithoutYes ==
    main_script \in ConfirmingScripts =>
        /\ main_pc \in {"start", "prompt"} => NothingDone
        /\ answer \notin YesAnswers =>
               /\ NothingDone
               /\ main_pc \in {"start", "prompt", "exited"}

\* the complete-coverage script was answered 'yes' and has ended
C23_Witness ==
    /\ main_script = "complete"
    /\ "SERPAPI_KEY" \in environ
    /\ answer = <<"y", "e", "s">>
    /\ main_pc = "exited"
    /\ exit_status = "success"
    /\ "cancelled_message" \in effects

\* the date pairs the Wed/Thu/Fri/Sat enumerator gives for April to June
AllWeekendDates ==
    WeekendGetWeekendDates(FirstMonth, LastFinderMonth, FirstYear).trips

\* the request for the k-th date pair of a destination
RequestFor(arrival_id, k) ==
    [arrival_id |-> arrival_id,
     outbound_date |-> AllWeekendDates[k][1],
     return_date |-> AllWeekendDates[k][2]]

\* C24: the complete-coverage run covers all dates: the enumerator gives
\* exactly 50 date pairs for April-June 2026, the sampler called with 50
\* keeps all of them unchanged, and the run attempts exactly 100 requests,
\* each of the 50 pairs once for each of the 2 destinations.
C24_CompleteCoverage ==
    (main_script = "complete" /\ main_pc \in {"scanning", "exited"}
        /\ pc # "idle") =>
        /\ Len(AllWeekendDates) = 50
        /\ scan_dates = AllWeekendDates
        /\ Len(requests_sent) <= 100
        /\ pc = "done" =>
               /\ Len(requests_sent) = 100
               /\ \A k \in 1..50 :
                      /\ requests_sent[k] = RequestFor("CDG,ORY", k)
                      /\ requests_sent[50 + k] = RequestFor("LHR,LGW,STN", k)

\* a complete-coverage run has ended in which every other request raised:
\* 100 requests were attempted, and the result file was written
C24_Witness ==
    /\ main_script = "complete"
    /\ main_pc = "exited"
    /\ pc = "done"
    /\ Len(requests_sent) = 100
    /\ api_calls_used = 50
    /\ Len(results) = 50
    /\ "file" \in effects

-----------------------------------------------------------------------------
(* Further claims about the sampler, checked under SpecSampler *)

\* C25: the sampler returns a list, without raising, for every non-empty
\* input and every target_count >= 0 below len(all_pairs), also when the
\* target is below the number of months of the input, so that a month is
\* given 0 slots.
C25_SamplerAlwaysReturns ==
    /\ (distributed_selected.status # "pending" /\ all_dates # <<>>
            /\ max_dates < Len(all_dates)) => DistributedOk
    /\ (smart_selected.status # "pending" /\ all_dates # <<>>
            /\ SmartTarget < Len(all_dates)) => SmartOk

\* the pairs of a list, as a set
PairsOf(dates) == {dates[k] : k \in 1..Len(dates)}

\* selected holds pairs of all_dates, each once, in the order of all_dates
OrderPreserving(selected) ==
    selected = SelectSeq(all_dates, LAMBDA pair : pair \in PairsOf(selected))

\* the departures of the list ascend
AscendingDates(dates) ==
    \A a, b \in 1..Len(dates) :
        a < b => ymd2ord(dates[a][1][1], dates[a][1][2], dates[a][1][3])
                     < ymd2ord(dates[b][1][1], dates[b][1][2], dates[b][1][3])

\* the first pair of every month with at least one slot is selected
FirstOfMonthSelected(selected, target) ==
    LET months == MonthsOf(all_dates)
    IN  \A i \in 0..(Len(months) - 1) :
            Slots(i, target, Len(months)) >= 1 =>
                MonthDates(all_dates, months[i + 1])[1] \in PairsOf(selected)

\* what C26 says of one returned list
SubsequenceOfInput(selected, target) ==
    /\ OrderPreserving(selected)
    /\ AscendingDates(selected)
    /\ FirstOfMonthSelected(selected, target)

\* C26: for every input list in ascending date order and every target_count
\* for which the sampler returns, the output is an order-preserving
\* subsequence of the input without repeated pairs, in ascending date order,
\* and holds the first pair of every month that receives at least one slot.
C26_OrderedSubsequence ==
    /\ SmartOk => SubsequenceOfInput(smart_selected.dates, SmartTarget)
    /\ DistributedOk =>
           SubsequenceOfInput(distributed_selected.dates, max_dates)

\* both samplers down-sampled a list over three months, every month holding
\* more pairs than its slots
C26_Witness ==
    /\ SmartOk
    /\ DistributedOk
    /\ Len(MonthsOf(all_dates)) = 3
    /\ max_dates \in 4..11
    /\ Len(distributed_selected.dates) = max_dates
    /\ Len(smart_selected.dates) = SmartTarget
    /\ Len(all_dates) > SmartTarget
    /\ \A i \in 0..2 :
           CountIn(all_dates, MonthsOf(all_dates)[i + 1])
               > Slots(i, max_dates, 3)

-----------------------------------------------------------------------------
(* Claims about the list a scan returns, checked under SpecScan *)

\* the records of a list with a given price, in list order
WithPrice(records, price) == SelectSeq(records, LAMBDA r : r.price = price)

\* the prices ascend along the list
AscendingPrices(records) ==
    \A a, b \in 1..Len(records) : a < b => records[a].price <= records[b].price

\* after is before sorted by price, records of equal price in the order of
\* before
StablySorted(before, after) ==
    /\ Len(after) = Len(before)
    /\ AscendingPrices(after)
    /\ \A k \in 1..Len(before) :
           WithPrice(after, before[k].price) = WithPrice(before, before[k].price)

\* C27: the list a scan returns is sorted by price ascending for every
\* sequence of request outcomes, records of equal price keep the order in
\* which the scan found them, and the list holds at most one record per
\* requested (destination, date pair), so that its length never exceeds
\* api_calls_used.
C27_SortedStableBounded ==
    /\ [](/\ Len(results) <= api_calls_used
          /\ Len(results) <= Len(requests_sent)
          /\ pc = "done" => AscendingPrices(results))
    /\ [][FinishScan => StablySorted(results, results')]_vars

\* the multi-destination scan has returned four records: the cheaper ones,
\* found for the later pairs, come first, and the two of each price stand in
\* the order of their requests, Paris before London; two requests gave no
\* record
C27_Witness ==
    /\ scanner = "weekend"
    /\ pc = "done"
    /\ Len(results) = 4
    /\ api_calls_used = 5
    /\ Len(requests_sent) = 6
    /\ results[1].price = 150
    /\ results[2].price = 150
    /\ results[3].price = 200
    /\ results[4].price = 200
    /\ results[1].destination = "paris"
    /\ results[2].destination = "london"
    /\ results[3].destination = "paris"
    /\ results[4].destination = "london"
    /\ results[1].departure_date = scan_dates[3][1]
    /\ results[3].departure_date = scan_dates[1][1]

-----------------------------------------------------------------------------
(* Claims about the validator, checked under SpecConfig *)

\* the validator returned True
Accepted == validation.status = "accepted"

\* the months the validator's estimate counts: first to last, over the year
\* end when the first is after the last
CountedMonths ==
    IF start_month <= end_month
    THEN start_month..end_month
    ELSE (start_month..12) \cup (1..end_month)

\* the months in which a returned pair departs
DepartureMonths == {Trips[k][1][2] : k \in 1..Len(Trips)}

\* the monitor returned pairs for the months the validator counted: none
\* departs in another month, and with a trip of at most a week every counted
\* month has a departure (the first of every weekday returns by the 14th)
EnumeratesCountedMonths ==
    /\ DepartureMonths \subseteq CountedMonths
    /\ (trip_duration <= 7 /\ departure_days # {}) =>
           CountedMonths \subseteq DepartureMonths

\* C28: every configuration validate_config accepts (months in 1..12,
\* departure days in 0..6, trip duration in 1..30) is one on which the
\* monitor's get_weekend_dates returns without raising and enumerates the
\* months the validator counted, END_MONTH = 12 and START_MONTH > END_MONTH
\* included.
C28_AcceptedConfigEnumerates ==
    (Accepted /\ Returned) =>
        /\ ReturnedOk
        /\ validation.month_count = Cardinality(CountedMonths)
        /\ EnumeratesCountedMonths

\* what holds of the accepted configurations with START_MONTH <= END_MONTH
\* < 12
C28_AcceptedBeforeDecember ==
    (Accepted /\ Returned /\ start_month <= end_month /\ end_month < 12) =>
        /\ ReturnedOk
        /\ validation.month_count = Cardinality(CountedMonths)
        /\ EnumeratesCountedMonths


-----------------------------------------------------------------------------
(* Claims about the market monitor's dates and the quota schedule, checked  *)
(* under SpecTools                                                          *)

\* the strategies FlightMarketMonitor.__init__ lists
DefinedStrategies == {"daily_pulse", "weekly_overview", "monthly_deep_dive"}

\* get_strategic_dates has returned or raised
StrategicDone == strategic_dates.status # "pending"

\* the Wed/Thu/Fri/Sat days from start_date to end_date
WeekendDeparturesBetween ==
    {day \in strptime(market_start)..strptime(market_end) :
        weekday(day) \in {2, 3, 4, 5}}

\* every entry is a pair of dates with the return after the departure
DatePairs(dates) ==
    \A k \in 1..Len(dates) :
        /\ Len(dates[k]) = 2
        /\ strptime(dates[k][1]) < strptime(dates[k][2])

\* C29: get_strategic_dates returns a list of (departure, return) pairs for
\* each of daily_pulse, weekly_overview and monthly_deep_dive; the
\* weekly_overview list has at most 13 pairs and the monthly_deep_dive list
\* has every weekend departure between start_date and end_date.
C29_StrategicDatesReturned ==
    (StrategicDone /\ market_strategy \in DefinedStrategies) =>
        /\ strategic_dates.status = "ok"
        /\ DatePairs(strategic_dates.dates)
        /\ market_strategy = "weekly_overview" =>
               Len(strategic_dates.dates) <= MarketCap
        /\ market_strategy = "monthly_deep_dive" =>
               WeekendDeparturesBetween =
                   {strptime(strategic_dates.dates[k][1]) :
                       k \in 1..Len(strategic_dates.dates)}

\* what holds of the two strategies whose helper exists: a list of pairs, of
\* one pair for daily_pulse and of at most 13 for weekly_overview
C29_SampledStrategiesReturned ==
    (StrategicDone /\ market_strategy \in {"daily_pulse", "weekly_overview"}) =>
        /\ strategic_dates.status = "ok"
        /\ DatePairs(strategic_dates.dates)
        /\ market_strategy = "daily_pulse" => Len(strategic_dates.dates) = 1
        /\ market_strategy = "weekly_overview" =>
               Len(strategic_dates.dates) <= MarketCap

\* calculate_quota_schedule has returned
ScheduleDone == schedule_dates.status # "pending"

\* no run of the schedule is on a day after the month end
WithinMonth(dates) ==
    \A k \in 1..Len(dates) : strptime(dates[k]) <= MonthEnd

\* at most remaining_calls // calls_per_run runs, using at most
\* remaining_calls calls
WithinQuota(dates) ==
    /\ Len(dates) <= RemainingCalls \div CallsPerRun
    /\ Len(dates) * CallsPerRun <= RemainingCalls

\* C30: whatever the current date, calculate_quota_schedule schedules no run
\* after 30 September 2025, at most remaining_calls // calls_per_run runs,
\* and runs that together use at most remaining_calls API calls.
C30_ScheduleWithinMonthAndQuota ==
    ScheduleDone =>
        /\ schedule_dates.status = "ok"
        /\ WithinMonth(schedule_dates.dates)
        /\ WithinQuota(schedule_dates.dates)

\* what holds whatever the current date: the quota part
C30_ScheduleWithinQuota ==
    ScheduleDone =>
        /\ schedule_dates.status = "ok"
        /\ WithinQuota(schedule_dates.dates)

\* what holds when the script runs no later than 30 September 2025
C30_ScheduleWithinMonthInSeptember ==
    (ScheduleDone /\ now.date <= MonthEnd) =>
        WithinMonth(schedule_dates.dates)

=============================================================================
